---- MODULE Spec2Model ----
(***************************************************************************)
(* A model of redux (asayers/redux): the per-target build lifecycle of     *)
(* lib.rs (build, try_restore, JobTmpFiles, actually_run), the             *)
(* declare-source front end of main.rs, the artifact store, the tracefile  *)
(* and the validity check of the dependency graph.                         *)
(*                                                                         *)
(* The file system is the shared state: target files, the pending output   *)
(* .redux_<t>.tmp, the in-progress tracefile .redux_<t>.trace, the traces  *)
(* directory and the artifact store.  Every redux invocation is a process  *)
(* whose steps are the file-system operations of the code, one per action. *)
(* A rule is an arbitrary executable: it may write $3, start redux         *)
(* invocations that inherit REDUX_TRACEFILE and REDUX_BUILD_ID, and exit   *)
(* with any code.                                                          *)
(***************************************************************************)
EXTENDS Integers, Sequences, FiniteSets, TLC

\* Number of redux invocations that run at the same time.
NProcs == 2
\* Number of redux invocations started in one run of the model.
MaxStarts == 3
\* Recursion depth granted to is_trace_valid beyond the size of the graph.
ExtraDepth == 1
\* Number of tracefiles of a graph given to valid_trace_for on its own.
MaxTraces == 3
\* Number of do-files in a work tree given to job_for on its own.
MaxRules == 3
\* Number of targets and value of --jobs of an invocation with several targets.
MaxTargets == 3
MaxJobs == 2
\* Number of lines after the job line in a tracefile text given to read.
MaxLines == 3

Procs == 1..NProcs

None == "none"

\* Generated targets (each has a rule <t>.do), checked-in sources.
Targets == {"a", "b"}
Sources == {"s"}
\* What a rule may write to $3.
Contents == {"x", "y"}

\* The rule of a target while a.do and b.do are the do-files of the work
\* tree; default.do is a do-file that an earlier state of the tree had.
RuleOf(t) == IF t = "a" THEN "a.do" ELSE "b.do"
RuleFiles == {RuleOf(t) : t \in Targets}
Paths == Targets \cup Sources \cup RuleFiles \cup {"default.do"}

\* blake3: an opaque injective hash of a byte sequence.
Hash(c) == "h" \o c

\* The content hash of a tracefile: injective on its lines.
HashLines(lines) == lines

\* Uuid::new_v4(): a fresh identifier; slot p draws at most one while n
\* invocations have started.
NewBuildId(p, n) == "B" \o ToString(p) \o "." \o ToString(n)

----------------------------------------------------------------------------
(* The state.                                                              *)

VARIABLES
    disk,       \* path -> content of the file in the work tree, or None
    tmp,        \* target -> content of .redux_<t>.tmp, or None
    wip,        \* target -> .redux_<t>.trace: [owner, lines], NoFile when absent
    traces,     \* the traces directory: a set of [name, lines]
    artifacts,  \* the artifact store: hash -> content of the file, or None
    pc,         \* process -> where the invocation stands
    inv,        \* process -> command line and environment of the invocation
    loc,        \* process -> its local variables, and what is recorded of its run
    starts,     \* the number of invocations started so far
    ret,        \* <<what a function applied on its own returned>>, else <<>>
    bld         \* main.rs: a build with several targets (main thread and workers), or --clean

vars == <<disk, tmp, wip, traces, artifacts, pc, inv, loc, starts, ret, bld>>

----------------------------------------------------------------------------
(* Tracefile lines and their fold into a Trace (trace.rs).                 *)

Line(tag, path, val) == [tag |-> tag, path |-> path, val |-> val]

\* FileStamp: <<path, hash>>.
Stamp(path, hash) == <<path, hash>>

\* JobSpec with an empty env: <<rule, target>>.
JobSpec(rule, target) == <<rule, target>>

\* humantime::Timestamp: the instant a printed time stands for.
Timestamp(txt) == CASE txt = "t1" -> 1 [] txt = "t3" -> 3 [] OTHER -> 0

\* SystemTime::now() at the validity check.
Now == 2

EmptyTrace(job) ==
    [job |-> job, env_vars |-> <<>>, data |-> <<>>,
     sources |-> <<>>, intermediates |-> <<>>, outputs |-> <<>>,
     valid_for |-> <<>>, valid_until |-> <<>>]

\* Trace::merge: a job line in the body does not parse and is skipped.
merge(trace, line) ==
    CASE line.tag = "source" ->
           [trace EXCEPT !.sources = Append(@, Stamp(line.path, line.val))]
      [] line.tag = "generated" ->
           [trace EXCEPT !.intermediates = Append(@, Stamp(line.path, line.val))]
      [] line.tag = "produced" ->
           [trace EXCEPT !.outputs = Append(@, Stamp(line.path, line.val))]
      [] line.tag = "env_var" ->
           [trace EXCEPT !.env_vars = Append(@, <<line.path, line.val>>)]
      [] line.tag = "data" ->
           [trace EXCEPT !.data = Append(@, line.val)]
      [] line.tag = "valid_for" ->
           [trace EXCEPT !.valid_for = <<line.val>>]
      [] line.tag = "valid_until" ->
           [trace EXCEPT !.valid_until =
              IF @ = <<>> \/ Timestamp(line.val) < @[1]
              THEN <<Timestamp(line.val)>> ELSE @]
      [] OTHER -> trace

RECURSIVE Trace_parse(_, _)
Trace_parse(trace, lines) ==
    IF lines = <<>> THEN trace
    ELSE Trace_parse(merge(trace, Head(lines)), Tail(lines))

\* TraceFile::read: the job of the first line, the fold of the rest.
TraceFile_read(lines) ==
    Trace_parse(EmptyTrace(JobSpec(lines[1].val, lines[1].path)), Tail(lines))

----------------------------------------------------------------------------
(* RuleSet (ruleset.rs).  A path is the sequence of its components, a      *)
(* component and any other string the sequence of its characters.          *)

S_do == <<".", "d", "o">>
S_default == <<"d", "e", "f", "a", "u", "l", "t">>

\* str::strip_suffix, str::strip_prefix: <<rest>>, or <<>> for None.
strip_suffix(str, suf) ==
    IF Len(str) >= Len(suf) /\ SubSeq(str, Len(str) - Len(suf) + 1, Len(str)) = suf
    THEN <<SubSeq(str, 1, Len(str) - Len(suf))>> ELSE <<>>

strip_prefix(str, pre) ==
    IF Len(str) >= Len(pre) /\ SubSeq(str, 1, Len(pre)) = pre
    THEN <<SubSeq(str, Len(pre) + 1, Len(str))>> ELSE <<>>

\* Display for LocalPath: the components joined by "/".
RECURSIVE Display(_)
Display(path) ==
    IF path = <<>> THEN <<>>
    ELSE IF Len(path) = 1 THEN path[1]
    ELSE path[1] \o <<"/">> \o Display(Tail(path))

\* LocalPath::depth.
depth(path) == Len(path)

\* Rule::new: <<rule>>, or <<>> for None.
Rule_new(path) ==
    IF path = <<>> THEN <<>>
    ELSE LET stem == strip_suffix(path[Len(path)], S_do)
             dir == SubSeq(path, 1, Len(path) - 1)
         IN  IF stem = <<>> THEN <<>>
             ELSE IF stem[1] = <<>> THEN <<>>
             ELSE LET x == strip_prefix(stem[1], S_default)
                  IN  IF x # <<>> /\ x[1] = <<>>
                      THEN <<[dir |-> dir, default |-> TRUE, name |-> <<>>]>>
                      ELSE IF x # <<>> /\ x[1][1] = "."
                      THEN <<[dir |-> dir, default |-> TRUE, name |-> x[1]]>>
                      ELSE <<[dir |-> dir, default |-> FALSE, name |-> stem[1]]>>

\* Rule::to_glob: the text of the pattern.
to_glob(rule) ==
    Display(rule.dir) \o (IF depth(rule.dir) = 0 THEN <<>> ELSE <<"/">>)
       \o <<"*", "*", "/">> \o (IF rule.default THEN <<"*">> ELSE <<>>) \o rule.name

\* Rule::to_path.
to_path(rule) ==
    Append(rule.dir, (IF rule.default THEN S_default ELSE <<>>) \o rule.name \o S_do)

\* globset, Glob::new with the default options: the pattern as tokens.  "**/"
\* at the start is a recursive prefix, "/**/" matches zero or more
\* directories, "*" any run of characters ("/" included, literal_separator
\* being off), any other character itself.
RECURSIVE Glob_new(_, _)
Glob_new(pat, i) ==
    IF i > Len(pat) THEN <<>>
    ELSE IF i = 1 /\ Len(pat) >= 3 /\ SubSeq(pat, 1, 3) = <<"*", "*", "/">>
    THEN <<"RecursivePrefix">> \o Glob_new(pat, 4)
    ELSE IF Len(pat) >= i + 3 /\ SubSeq(pat, i, i + 3) = <<"/", "*", "*", "/">>
    THEN <<"RecursiveZeroOrMore">> \o Glob_new(pat, i + 4)
    ELSE IF pat[i] = "*" THEN <<"ZeroOrMore">> \o Glob_new(pat, i + 1)
    ELSE <<pat[i]>> \o Glob_new(pat, i + 1)

\* Glob matching: the tokens from i on match the text from j on.  The recursive
\* prefix is the regex (?:/?|.*/), zero-or-more directories (?:/|/.*/), the
\* star .* .
RECURSIVE Glob_is_match(_, _, _, _)
Glob_is_match(toks, i, txt, j) ==
    IF i > Len(toks) THEN j > Len(txt)
    ELSE CASE toks[i] = "RecursivePrefix" ->
                \/ Glob_is_match(toks, i + 1, txt, j)
                \/ \E k \in j..Len(txt) : txt[k] = "/" /\ Glob_is_match(toks, i + 1, txt, k + 1)
           [] toks[i] = "RecursiveZeroOrMore" ->
                /\ j <= Len(txt)
                /\ txt[j] = "/"
                /\ \/ Glob_is_match(toks, i + 1, txt, j + 1)
                   \/ \E k \in (j + 1)..Len(txt) :
                         txt[k] = "/" /\ Glob_is_match(toks, i + 1, txt, k + 1)
           [] toks[i] = "ZeroOrMore" ->
                \E k \in j..(Len(txt) + 1) : Glob_is_match(toks, i + 1, txt, k)
           [] OTHER ->
                j <= Len(txt) /\ txt[j] = toks[i] /\ Glob_is_match(toks, i + 1, txt, j + 1)

\* Ord::cmp, Ordering::reverse, Ordering::then.
cmp(x, y) == IF x < y THEN "Less" ELSE IF x = y THEN "Equal" ELSE "Greater"
reverse(o) == CASE o = "Less" -> "Greater" [] o = "Greater" -> "Less" [] OTHER -> "Equal"
then(o1, o2) == IF o1 # "Equal" THEN o1 ELSE o2

\* bool as ordered by Ord: false < true.
OrdBool(b) == IF b THEN 1 ELSE 0

\* Rule::priority without the comparison of the lengths of the names.
priority_no_extension(self, other) ==
    LET by_dir == cmp(depth(self.dir), depth(other.dir))
        by_specificity == reverse(cmp(OrdBool(self.default), OrdBool(other.default)))
    IN  then(by_dir, by_specificity)

\* Rule::priority.
priority(self, other) ==
    LET by_dir == cmp(depth(self.dir), depth(other.dir))
        by_specificity == reverse(cmp(OrdBool(self.default), OrdBool(other.default)))
        by_extension == cmp(Len(self.name), Len(other.name))
    IN  then(then(by_dir, by_specificity), by_extension)

\* One step of the stable sort of RuleSet::new: x goes before the first rule
\* it is less than under |x, y| x.priority(y).reverse().
RECURSIVE SortInsert(_, _)
SortInsert(sorted, x) ==
    IF sorted = <<>> THEN <<x>>
    ELSE IF reverse(priority(x, Head(sorted))) = "Less" THEN <<x>> \o sorted
    ELSE <<Head(sorted)>> \o SortInsert(Tail(sorted), x)

\* RuleSet::new without the sort: the rules in the order of the walk.
RuleSet_new_unsorted(rules) == rules

\* RuleSet::new: the rules, highest priority first; rule ids are positions.
RECURSIVE RuleSet_new(_)
RuleSet_new(rules) ==
    IF rules = <<>> THEN <<>>
    ELSE SortInsert(RuleSet_new(SubSeq(rules, 1, Len(rules) - 1)), rules[Len(rules)])

\* scan_for_do_files: the files of the walk that are rules, in the order of
\* the walk.
RECURSIVE RulesOf(_)
RulesOf(walk) ==
    IF walk = <<>> THEN <<>> ELSE Rule_new(Head(walk)) \o RulesOf(Tail(walk))

scan_for_do_files(walk) == RuleSet_new(RulesOf(walk))

\* GlobSet::matches: the ids of the globs that match the path.
GlobSet_matches(ruleset, target) ==
    {id \in 1..Len(ruleset) :
       Glob_is_match(Glob_new(to_glob(ruleset[id]), 1), 1, Display(target), 1)}

\* RuleSet::job_for over a scanned rule set: the match with the lowest id;
\* <<>> is None.
RuleSet_job_for(ruleset, target) ==
    LET matches == GlobSet_matches(ruleset, target)
    IN  IF matches = {} THEN <<>>
        ELSE LET rule_id == CHOOSE id \in matches : \A k \in matches : id <= k
             IN  JobSpec(to_path(ruleset[rule_id]), target)

\* How the paths of the work tree are spelled; all are at its root.
Spelling ==
    [f \in Paths |->
       <<CASE f = "a" -> <<"a">>
           [] f = "b" -> <<"b">>
           [] f = "s" -> <<"s">>
           [] f = "a.do" -> <<"a">> \o S_do
           [] f = "b.do" -> <<"b">> \o S_do
           [] f = "default.do" -> S_default \o S_do>>]

\* WalkDir over a work tree with the files of the set present: the entries
\* of the one directory, in the order of their names.
WalkOf(present) ==
    LET sorted == <<"a", "a.do", "b", "b.do", "default.do", "s">>
        RECURSIVE Entries(_)
        Entries(i) ==
            IF i > Len(sorted) THEN <<>>
            ELSE (IF sorted[i] \in present THEN <<Spelling[sorted[i]]>> ELSE <<>>)
                 \o Entries(i + 1)
    IN  Entries(1)

\* scan_for_do_files()?.job_for(target) for every set of files the work tree
\* may hold and every path; <<>> is None: no rule matches.
JobTable ==
    LET table ==
          [present \in SUBSET Paths |->
             LET ruleset == scan_for_do_files(WalkOf(present))
             IN  [target \in Paths |->
                    LET job == RuleSet_job_for(ruleset, Spelling[target])
                    IN  IF job = <<>> THEN <<>>
                        ELSE JobSpec(CHOOSE f \in Paths : Spelling[f] = job[1], target)]]
    IN  CHOOSE f \in {table} : f = table

\* RuleSet::job_for on the rule set scanned from the work tree (lib.rs 110,
\* main.rs 267).
job_for(target) ==
    IF target \in Paths THEN JobTable[{f \in Paths : disk[f] # None}][target] ELSE <<>>

is_job_valid(job) == job_for(job[2]) = job

----------------------------------------------------------------------------
(* DepGraph (depgraph.rs).  A graph is the set of its (job, trace)         *)
(* entries: the map JobSpec -> HashSet<Trace>, flattened.                  *)

load_all(dir) == {TraceFile_read(f.lines) : f \in dir}

drop_superseded(G) == {e \in G : is_job_valid(e.job)}

\* A load that keeps the superseded entries.
load_keep_superseded(dir) == load_all(dir)

load(dir) == drop_superseded(load_all(dir))

SeqRange(s) == {s[i] : i \in 1..Len(s)}

runs_producing(G, file) == {e \in G : file \in SeqRange(e.outputs)}

outputs(G) == UNION {SeqRange(e.outputs) : e \in G}

\* FileStamp::is_valid: Err when the file is missing.
is_valid(stamp, files) ==
    IF files[stamp[1]] = None THEN "err"
    ELSE IF Hash(files[stamp[1]]) = stamp[2] THEN "true" ELSE "false"

\* BuildId::is_current: REDUX_BUILD_ID of the environment equals id.
is_current(id, envbid) == envbid = <<id>>

\* The conditions of is_trace_valid that do not recurse (depgraph.rs 150-160).
LocallyValid(e, env) ==
    /\ ~(e.valid_until # <<>> /\ e.valid_until[1] < env.now)
    /\ (e.valid_for # <<>> => is_current(e.valid_for[1], env.bid))
    /\ \A i \in 1..Len(e.sources) : is_valid(e.sources[i], env.files) = "true"

\* The recursion never returns: the stack overflows and the process dies.
Overflow == [overflow |-> TRUE]

\* What is_trace_valid may do for entry e: return one of the BuildTrees of
\* the set, or overflow the stack; the empty set is None.  Which witness
\* find_map meets first depends on the iteration order of the HashSet, so a
\* witness that leads back to an entry on the stack is met first under some
\* orders.  A recursion deeper than the number of entries has met an entry
\* twice and goes on for ever: stack counts down to that point.
RECURSIVE is_trace_valid(_, _, _, _)
is_trace_valid(G, e, env, stack) ==
    IF stack = 0 THEN {Overflow}
    ELSE IF ~LocallyValid(e, env) THEN {}
    ELSE LET n == Len(e.intermediates)
             R(i) == UNION {is_trace_valid(G, w, env, stack - 1) :
                              w \in runs_producing(G, e.intermediates[i])}
             W(i) == R(i) \ {Overflow}
             AllW == UNION {W(i) : i \in 1..n}
             \* the `?` of line 171 returns None at the first intermediate
             \* without a witness; the intermediates before it were searched
             Dies == \E i \in 1..n : Overflow \in R(i) /\ \A k \in 1..(i - 1) : W(k) # {}
             Trees == IF \E i \in 1..n : W(i) = {} THEN {}
                      ELSE {[job |-> e.job, sources |-> e.sources,
                             intermediates |->
                                [i \in 1..n |-> <<e.intermediates[i], ws[i]>>],
                             outputs |-> e.outputs, valid_until |-> e.valid_until] :
                               ws \in {s \in [1..n -> AllW] : \A i \in 1..n : s[i] \in W(i)}}
         IN  Trees \cup (IF Dies THEN {Overflow} ELSE {})

Depth(G) == Cardinality(G) + ExtraDepth

\* valid_trace_for: find_map over the traces of the job.
valid_trace_for(G, job, env) ==
    UNION {is_trace_valid(G, e, env, Depth(G)) : e \in {x \in G : x.job = job}}

----------------------------------------------------------------------------
(* The state at the start.                                                 *)

AllHashes == {Hash(c) : c \in Contents \cup {"v"}}

\* No invocation with several targets is under way.
NoBuild == [pc |-> "none"]

\* No tracefile at the path (owner: the process that created the file).
NoFile == [owner |-> 0, lines |-> <<>>]

\* force: --force given or REDUX_FORCE set (main.rs 191); envf: REDUX_FORCE is
\* in the environment, which the processes started by the rule inherit.
NoInv == [target |-> None, force |-> FALSE, envf |-> FALSE, ptf |-> None, bid |-> <<>>,
          always |-> FALSE]

\* isSrc, stamp, listing, thash: locals of the code.  rc: the exit code of the
\* rule (-1: none); res: how the invocation ends.  Recorded for the claims:
\* waited, what became of the lock the process last found held; kids, the
\* invocations its rule started; snap, <<target file, store, traces, starts,
\* no other invocation running>> when the process took the lock.
NoLoc == [isSrc |-> FALSE, rc |-> -1, stamp |-> None, listing |-> {}, thash |-> <<>>,
          res |-> "", waited |-> "no", kids |-> 0, snap |-> <<>>]

\* The work tree before any build.
FreshDisk == [f \in Paths |->
                 CASE f = "s" -> "v" [] f = "a.do" -> "ra" [] f = "b.do" -> "rb" [] OTHER -> None]

\* The tracefile of one run of a.do that wrote "x" and declared nothing.
FirstTrace ==
    <<Line("job", "a", "a.do"), Line("source", "a.do", Hash("ra")),
      Line("produced", "a", Hash("x"))>>

\* Either a fresh work tree, or the work tree after one build of "a".
Init ==
    /\ tmp = [t \in Targets |-> None]
    /\ wip = [t \in Targets |-> NoFile]
    /\ pc = [p \in Procs |-> "idle"]
    /\ inv = [p \in Procs |-> NoInv]
    /\ loc = [p \in Procs |-> NoLoc]
    /\ starts = 0
    /\ ret = <<>>
    /\ bld = NoBuild
    /\ \/ /\ disk = FreshDisk
          /\ traces = {}
          /\ artifacts = [h \in AllHashes |-> None]
       \/ /\ disk = [FreshDisk EXCEPT !["a"] = "x"]
          /\ traces = {[name |-> HashLines(FirstTrace), lines |-> FirstTrace]}
          /\ artifacts = [h \in AllHashes |-> IF h = Hash("x") THEN "x" ELSE None]

----------------------------------------------------------------------------
(* Helpers of the actions.                                                 *)

Env(p) == [files |-> disk, bid |-> inv[p].bid, now |-> Now]

\* Artifacts::new: the listing of the store.
Artifacts_new == {h \in AllHashes : artifacts[h] # None}

\* is_source asking the graph of the current rules only (DepGraph::load).
is_source_current_rules(path) ==
    IF path \in Sources THEN TRUE
    ELSE IF disk[path] = None THEN FALSE
    ELSE IF Stamp(path, Hash(disk[path])) \in outputs(load(traces)) THEN FALSE
    ELSE TRUE

\* is_source (lib.rs): in the index; else generated when missing or when its
\* stamp is an output of any recorded trace; else assumed a source.
is_source(path) ==
    IF path \in Sources THEN TRUE
    ELSE IF disk[path] = None THEN FALSE
    ELSE IF Stamp(path, Hash(disk[path])) \in outputs(load_all(traces)) THEN FALSE
    ELSE TRUE

\* tree.outputs.iter().find(|x| x.path == target): <<>> when there is none.
OutputFor(tree, target) ==
    LET I == {i \in 1..Len(tree.outputs) : tree.outputs[i][1] = target}
    IN  IF I = {} THEN <<>> ELSE tree.outputs[CHOOSE i \in I : \A k \in I : i <= k]

\* What try_restore may get from valid_trace_for (lib.rs 141-144).
ValidTrees(p, job) == valid_trace_for(load(traces), job, Env(p))

\* Neither the unwrap of try_restore (lib.rs 150) nor the assertion of
\* restore (artifacts.rs) panics.
CanRestore(tree, job) ==
    /\ OutputFor(tree, job[2]) # <<>>
    /\ OutputFor(tree, job[2])[2] \in Artifacts_new

\* Artifacts::restore: copy the store's file to the stamp's path.
Artifacts_restore(x) == disk' = [disk EXCEPT ![x[1]] = artifacts[x[2]]]

\* BuildId::current (lib.rs): REDUX_BUILD_ID, or a new id.
BuildId_current(p) == IF inv[p].bid # <<>> THEN inv[p].bid[1] ELSE NewBuildId(p, starts)

\* A process slot is free before its first invocation and after an exit;
\* slots are taken in order.
Free(p) == pc[p] \in {"idle", "exit"}
SlotFree(p) == Free(p) /\ starts < MaxStarts /\ \A q \in Procs : q < p => ~Free(q)

\* The locals of a process that ends with result res.
Ended(p, res) ==
    [NoLoc EXCEPT !.rc = loc[p].rc, !.res = res,
                  !.kids = IF loc[p].rc \in {-1, 0, 102} THEN 0 ELSE loc[p].kids,
                  !.snap = IF loc[p].rc \in {-1, 0, 102} THEN <<>> ELSE loc[p].snap]

Snapshot(p) ==
    <<disk[inv[p].target], artifacts, traces, starts, \A q \in Procs \ {p} : Free(q)>>

\* Between a successful TraceFile::create and the rename or delete of the
\* tracefile.
Holding == {"run", "c_stamp", "c_insert", "c_finish", "c_rename", "drop_trace"}

----------------------------------------------------------------------------
(* main.rs build, for one target: the start of an invocation.              *)

\* A worker thread that enters the loop of build without a job.
ThreadEntry_without_rule(t) ==
    IF is_source(t) THEN "stamp" ELSE "try"

\* Where the worker thread of the target starts (main.rs 234-240,
\* lib.rs 109-113).
ThreadEntry(t) ==
    IF is_source(t) THEN "stamp"
    ELSE IF job_for(t) = <<>> THEN "exit"
    ELSE "try"

StartLoc(t) ==
    [NoLoc EXCEPT !.isSrc = is_source(t),
                  !.res = IF ThreadEntry(t) = "exit" THEN "err" ELSE ""]

\* A user runs `redux [--force] t`.
StartTop(p, t, f) ==
    /\ SlotFree(p)
    /\ starts' = starts + 1
    /\ pc' = [pc EXCEPT ![p] = ThreadEntry(t)]
    /\ inv' = [inv EXCEPT ![p] = [NoInv EXCEPT !.target = t, !.force = f]]
    /\ loc' = [loc EXCEPT ![p] = StartLoc(t)]
    /\ UNCHANGED <<disk, tmp, wip, traces, artifacts, ret, bld>>

\* A user runs `REDUX_FORCE=1 redux t`.
StartTopEnv(p, t) ==
    /\ SlotFree(p)
    /\ starts' = starts + 1
    /\ pc' = [pc EXCEPT ![p] = ThreadEntry(t)]
    /\ inv' = [inv EXCEPT ![p] = [NoInv EXCEPT !.target = t, !.force = TRUE, !.envf = TRUE]]
    /\ loc' = [loc EXCEPT ![p] = StartLoc(t)]
    /\ UNCHANGED <<disk, tmp, wip, traces, artifacts, ret, bld>>

\* main.rs 229-251: the command line of the top-level invocation of p names
\* another target t; its worker thread starts, with the options and the
\* environment of the invocation.
StartSibling(p, q, t) ==
    /\ ~Free(p)
    /\ inv[p].ptf = None
    /\ ~inv[p].always
    /\ SlotFree(q)
    /\ starts' = starts + 1
    /\ pc' = [pc EXCEPT ![q] = ThreadEntry(t)]
    /\ inv' = [inv EXCEPT ![q] = [inv[p] EXCEPT !.target = t]]
    /\ loc' = [loc EXCEPT ![q] = StartLoc(t)]
    /\ UNCHANGED <<disk, tmp, wip, traces, artifacts, ret, bld>>

\* The rule run by p runs `redux d`: the child gets REDUX_TRACEFILE and
\* REDUX_BUILD_ID of actually_run, and the rest of the environment of p; the
\* rule need not wait for it.
RuleDeclare(p, q, d) ==
    /\ pc[p] = "run"
    /\ SlotFree(q)
    /\ d # inv[p].target
    /\ starts' = starts + 1
    /\ pc' = [pc EXCEPT ![q] = ThreadEntry(d)]
    /\ inv' = [inv EXCEPT ![q] = [NoInv EXCEPT !.target = d, !.ptf = inv[p].target,
                                               !.bid = <<loc[p].stamp>>,
                                               !.force = inv[p].envf,
                                               !.envf = inv[p].envf]]
    /\ loc' = [loc EXCEPT ![q] = StartLoc(d), ![p].kids = @ + 1]
    /\ UNCHANGED <<disk, tmp, wip, traces, artifacts, ret, bld>>

\* The rule run by p runs `redux --always`.
RuleAlways(p, q) ==
    /\ pc[p] = "run"
    /\ SlotFree(q)
    /\ starts' = starts + 1
    /\ pc' = [pc EXCEPT ![q] = "volatile"]
    /\ inv' = [inv EXCEPT ![q] = [NoInv EXCEPT !.ptf = inv[p].target, !.always = TRUE,
                                               !.bid = <<loc[p].stamp>>,
                                               !.force = inv[p].envf,
                                               !.envf = inv[p].envf]]
    /\ loc' = [loc EXCEPT ![q] = NoLoc, ![p].kids = @ + 1]
    /\ UNCHANGED <<disk, tmp, wip, traces, artifacts, ret, bld>>

\* TraceFile::append to the tracefile of REDUX_TRACEFILE: open in append mode
\* (an error when the file is not there), one line.
TraceFile_append(path, line) ==
    wip' = [wip EXCEPT ![path].lines = Append(@, line)]

\* main.rs 194-207: --always appends valid_for <REDUX_BUILD_ID>; there are no
\* targets, and main.rs 265 is next.
Volatile(p) ==
    /\ pc[p] = "volatile"
    /\ IF wip[inv[p].ptf] = NoFile
       THEN /\ pc' = [pc EXCEPT ![p] = "exit"]
            /\ loc' = [loc EXCEPT ![p] = Ended(p, "err")]
            /\ UNCHANGED wip
       ELSE /\ TraceFile_append(inv[p].ptf, Line("valid_for", "", BuildId_current(p)))
            /\ pc' = [pc EXCEPT ![p] = IF inv[p].force THEN "exit" ELSE "bail"]
            /\ loc' = [loc EXCEPT ![p] = IF inv[p].force THEN Ended(p, "ok") ELSE @]
    /\ UNCHANGED <<disk, tmp, traces, artifacts, inv, starts, ret, bld>>

----------------------------------------------------------------------------
(* lib.rs build: the restore-or-lock loop.                                 *)

\* lib.rs 115-124 without the test of `clean`: try_restore also when forced.
build_try_restore_unforced(p) ==
    /\ pc[p] = "try"
    /\ LET job == job_for(inv[p].target)
           trees == ValidTrees(p, job)
       IN  IF trees = {}
           THEN /\ pc' = [pc EXCEPT ![p] = "create"]
                /\ UNCHANGED loc
                /\ UNCHANGED disk
           ELSE \E tree \in trees :
                  IF tree # Overflow /\ CanRestore(tree, job)
                  THEN /\ Artifacts_restore(OutputFor(tree, job[2]))
                       /\ pc' = [pc EXCEPT ![p] = "stamp"]
                       /\ loc' = [loc EXCEPT ![p].stamp = OutputFor(tree, job[2])[2]]
                  ELSE /\ pc' = [pc EXCEPT ![p] = "exit"]
                       /\ loc' = [loc EXCEPT ![p] = Ended(p, "panic")]
                       /\ UNCHANGED disk
    /\ UNCHANGED <<tmp, wip, traces, artifacts, inv, starts, ret, bld>>

\* lib.rs 115-124: unless forced, try_restore; on a hit the target is restored
\* and build returns.
build_try_restore(p) ==
    /\ pc[p] = "try"
    /\ LET job == job_for(inv[p].target)
           trees == IF inv[p].force THEN {} ELSE ValidTrees(p, job)
       IN  IF trees = {}
           THEN /\ pc' = [pc EXCEPT ![p] = "create"]
                /\ UNCHANGED loc
                /\ UNCHANGED disk
           ELSE \E tree \in trees :
                  IF tree # Overflow /\ CanRestore(tree, job)
                  THEN /\ Artifacts_restore(OutputFor(tree, job[2]))
                       /\ pc' = [pc EXCEPT ![p] = "stamp"]
                       /\ loc' = [loc EXCEPT ![p].stamp = OutputFor(tree, job[2])[2]]
                  ELSE /\ pc' = [pc EXCEPT ![p] = "exit"]
                       /\ loc' = [loc EXCEPT ![p] = Ended(p, "panic")]
                       /\ UNCHANGED disk
    /\ UNCHANGED <<tmp, wip, traces, artifacts, inv, starts, ret, bld>>

\* TraceFile::create with File::create in place of File::create_new: an
\* existing tracefile is truncated and taken over.
TraceFile_create_truncating(p) ==
    /\ pc[p] = "create"
    /\ LET t == inv[p].target
       IN  /\ wip' = [wip EXCEPT ![t] =
                        [owner |-> p,
                         lines |-> <<Line("job", t, job_for(t)[1]),
                                     Line("source", job_for(t)[1],
                                          Hash(disk[job_for(t)[1]]))>>]]
           /\ pc' = [pc EXCEPT ![p] = "run"]
           /\ loc' = [loc EXCEPT ![p].snap = Snapshot(p),
                                 ![p].stamp = BuildId_current(p)]
    /\ UNCHANGED <<disk, tmp, traces, artifacts, inv, starts, ret, bld>>

\* TraceFile::create writing the job line only.
TraceFile_create_job_only(p) ==
    /\ pc[p] = "create"
    /\ LET t == inv[p].target
       IN  IF wip[t] # NoFile
           THEN /\ pc' = [pc EXCEPT ![p] = "try"]
                /\ loc' = [loc EXCEPT ![p].waited = "held"]
                /\ UNCHANGED wip
           ELSE /\ wip' = [wip EXCEPT ![t] =
                             [owner |-> p, lines |-> <<Line("job", t, job_for(t)[1])>>]]
                /\ pc' = [pc EXCEPT ![p] = "run"]
                /\ loc' = [loc EXCEPT ![p].snap = Snapshot(p),
                                      ![p].stamp = BuildId_current(p)]
    /\ UNCHANGED <<disk, tmp, traces, artifacts, inv, starts, ret, bld>>

\* TraceFile::create (trace.rs 252-277) within JobTmpFiles::create: the
\* exclusive create of .redux_<t>.trace, then the job line and the stamp of
\* the rule; "in progress" when the file exists, and the loop sleeps.  With
\* the lock the rule is spawned (lib.rs 187-209); stamp holds the
\* REDUX_BUILD_ID given to it.
TraceFile_create(p) ==
    /\ pc[p] = "create"
    /\ LET t == inv[p].target
       IN  IF wip[t] # NoFile
           THEN /\ pc' = [pc EXCEPT ![p] = "try"]
                /\ loc' = [loc EXCEPT ![p].waited = "held"]
                /\ UNCHANGED wip
           ELSE /\ wip' = [wip EXCEPT ![t] =
                             [owner |-> p,
                              lines |-> <<Line("job", t, job_for(t)[1]),
                                          Line("source", job_for(t)[1],
                                               Hash(disk[job_for(t)[1]]))>>]]
                /\ pc' = [pc EXCEPT ![p] = "run"]
                /\ loc' = [loc EXCEPT ![p].snap = Snapshot(p),
                                      ![p].stamp = BuildId_current(p)]
    /\ UNCHANGED <<disk, tmp, traces, artifacts, inv, starts, ret, bld>>

----------------------------------------------------------------------------
(* The rule process spawned by actually_run (lib.rs 187-210).              *)

\* The rule writes its output to $3.
RuleWrite(p, c) ==
    /\ pc[p] = "run"
    /\ tmp[inv[p].target] = None
    /\ tmp' = [tmp EXCEPT ![inv[p].target] = c]
    /\ UNCHANGED <<disk, wip, traces, artifacts, pc, inv, loc, starts, ret, bld>>

----------------------------------------------------------------------------
(* actually_run after child.wait() and JobTmpFiles (lib.rs 41-107, 210-223). *)
(* The exit of the rule is seen by no other process, so it is one step with  *)
(* what actually_run does first.                                             *)

\* The waiters on target t learn what became of the lock.
Released(l, p, t, how) ==
    [q \in Procs |-> IF q # p /\ l[q].waited = "held" /\ inv[q].target = t
                     THEN [l[q] EXCEPT !.waited = how] ELSE l[q]]

\* The rule exits 0.  commit, lib.rs 69-73: the output must exist; it is
\* renamed to the target.  Without it commit fails and the guard is dropped
\* (nothing to remove at $3).
commit_rename_out(p) ==
    /\ pc[p] = "run"
    /\ LET t == inv[p].target
       IN  IF tmp[t] = None
           THEN /\ pc' = [pc EXCEPT ![p] = "drop_trace"]
                /\ loc' = [loc EXCEPT ![p].rc = 0, ![p].res = "err", ![p].stamp = None]
                /\ UNCHANGED <<disk, tmp>>
           ELSE /\ disk' = [disk EXCEPT ![t] = tmp[t]]
                /\ tmp' = [tmp EXCEPT ![t] = None]
                /\ pc' = [pc EXCEPT ![p] = "c_stamp"]
                /\ loc' = [loc EXCEPT ![p].rc = 0, ![p].stamp = None]
    /\ UNCHANGED <<wip, traces, artifacts, inv, starts, ret, bld>>

\* commit, lib.rs 74-75: FileStamp::new of the target, then Artifacts::new.
commit_stamp(p) ==
    /\ pc[p] = "c_stamp"
    /\ IF disk[inv[p].target] = None
       THEN /\ pc' = [pc EXCEPT ![p] = "drop_trace"]
            /\ loc' = [loc EXCEPT ![p].res = "err"]
       ELSE /\ pc' = [pc EXCEPT ![p] = "c_insert"]
            /\ loc' = [loc EXCEPT ![p].stamp = Hash(disk[inv[p].target]),
                                  ![p].listing = Artifacts_new]
    /\ UNCHANGED <<disk, tmp, wip, traces, artifacts, inv, starts, ret, bld>>

\* Artifacts::insert without the copy.
Artifacts_insert_nocopy(p, path) == UNCHANGED artifacts

\* Artifacts::insert (artifacts.rs 33-43): unless the listing has the hash,
\* copy the file now at the stamp's path to <store>/<hash>.
Artifacts_insert(p, path) ==
    IF loc[p].stamp \in loc[p].listing
    THEN UNCHANGED artifacts
    ELSE artifacts' = [artifacts EXCEPT ![loc[p].stamp] = disk[path]]

\* std::fs::copy fails when the file to copy is gone.
CopyFails(p, path) == loc[p].stamp \notin loc[p].listing /\ disk[path] = None

\* commit, lib.rs 75: insert the target into the store.
commit_insert(p) ==
    /\ pc[p] = "c_insert"
    /\ IF CopyFails(p, inv[p].target)
       THEN /\ pc' = [pc EXCEPT ![p] = "drop_trace"]
            /\ loc' = [loc EXCEPT ![p].res = "err"]
            /\ UNCHANGED artifacts
       ELSE /\ Artifacts_insert(p, inv[p].target)
            /\ pc' = [pc EXCEPT ![p] = "c_finish"]
            /\ loc' = [loc EXCEPT ![p].listing = {}]
    /\ UNCHANGED <<disk, tmp, wip, traces, inv, starts, ret, bld>>

\* commit, lib.rs 78-81: TraceFile::finish appends the produced line; the
\* tracefile is hashed.
commit_finish(p) ==
    /\ pc[p] = "c_finish"
    /\ LET t == inv[p].target
       IN  IF wip[t] = NoFile
           THEN /\ pc' = [pc EXCEPT ![p] = "drop_trace"]
                /\ loc' = [loc EXCEPT ![p].res = "err"]
                /\ UNCHANGED wip
           ELSE /\ TraceFile_append(t, Line("produced", t, loc[p].stamp))
                /\ pc' = [pc EXCEPT ![p] = "c_rename"]
                /\ loc' = [loc EXCEPT ![p].thash = HashLines(wip'[t].lines)]
    /\ UNCHANGED <<disk, tmp, traces, artifacts, inv, starts, ret, bld>>

\* commit, lib.rs 82-88: the tracefile is renamed to <traces>/<hash>.trace
\* (replacing a file of that name) and read back; committed.
commit_rename(p) ==
    /\ pc[p] = "c_rename"
    /\ LET t == inv[p].target
       IN  IF wip[t] = NoFile
           THEN /\ pc' = [pc EXCEPT ![p] = "drop_trace"]
                /\ loc' = [loc EXCEPT ![p].res = "err"]
                /\ UNCHANGED <<wip, traces>>
           ELSE /\ traces' = {f \in traces : f.name # loc[p].thash}
                               \cup {[name |-> loc[p].thash, lines |-> wip[t].lines]}
                /\ wip' = [wip EXCEPT ![t] = NoFile]
                /\ pc' = [pc EXCEPT ![p] = "stamp"]
                /\ loc' = Released([loc EXCEPT ![p].thash = <<>>, ![p].snap = <<>>, ![p].kids = 0],
                                   p, t, "committed")
    /\ UNCHANGED <<disk, tmp, artifacts, inv, starts, ret, bld>>

\* actually_run treating exit code 102 like success as far as the output
\* goes: $3 is moved to the target before the guard is dropped.
actually_run_bail_moves(p) ==
    /\ pc[p] = "run"
    /\ disk' = [disk EXCEPT ![inv[p].target] =
                  IF tmp[inv[p].target] = None THEN @ ELSE tmp[inv[p].target]]
    /\ tmp' = [tmp EXCEPT ![inv[p].target] = None]
    /\ pc' = [pc EXCEPT ![p] = "drop_trace"]
    /\ loc' = [loc EXCEPT ![p].rc = 102, ![p].stamp = None,
                          ![p].res = IF disk[inv[p].target] = None THEN "panic" ELSE ""]
    /\ UNCHANGED <<wip, traces, artifacts, inv, starts, ret, bld>>

\* The rule exits 102.  actually_run, lib.rs 216-220: the target must exist
\* (or the assertion panics).  The guard is dropped: Drop removes $3 first.
actually_run_bail(p) ==
    /\ pc[p] = "run"
    /\ tmp' = [tmp EXCEPT ![inv[p].target] = None]
    /\ pc' = [pc EXCEPT ![p] = "drop_trace"]
    /\ loc' = [loc EXCEPT ![p].rc = 102, ![p].stamp = None,
                          ![p].res = IF disk[inv[p].target] = None THEN "panic" ELSE ""]
    /\ UNCHANGED <<disk, wip, traces, artifacts, inv, starts, ret, bld>>

\* actually_run moving $3 to the target before it reports the failure.
actually_run_failed_moves(p) ==
    /\ pc[p] = "run"
    /\ disk' = [disk EXCEPT ![inv[p].target] =
                  IF tmp[inv[p].target] = None THEN @ ELSE tmp[inv[p].target]]
    /\ tmp' = [tmp EXCEPT ![inv[p].target] = None]
    /\ pc' = [pc EXCEPT ![p] = "drop_trace"]
    /\ loc' = [loc EXCEPT ![p].rc = 1, ![p].stamp = None, ![p].res = "err"]
    /\ UNCHANGED <<wip, traces, artifacts, inv, starts, ret, bld>>

\* Drop for JobTmpFiles removing the tracefile before the outfile.
actually_run_failed_trace_first(p) ==
    /\ pc[p] = "run"
    /\ wip' = [wip EXCEPT ![inv[p].target] = NoFile]
    /\ pc' = [pc EXCEPT ![p] = "drop_trace"]
    /\ loc' = [loc EXCEPT ![p].rc = 1, ![p].stamp = None, ![p].res = "err"]
    /\ UNCHANGED <<disk, tmp, traces, artifacts, inv, starts, ret, bld>>

\* The rule exits with another code.  actually_run, lib.rs 221-223: "Job
\* failed".  The guard is dropped: Drop removes $3 first.
actually_run_failed(p) ==
    /\ pc[p] = "run"
    /\ tmp' = [tmp EXCEPT ![inv[p].target] = None]
    /\ pc' = [pc EXCEPT ![p] = "drop_trace"]
    /\ loc' = [loc EXCEPT ![p].rc = 1, ![p].stamp = None, ![p].res = "err"]
    /\ UNCHANGED <<disk, wip, traces, artifacts, inv, starts, ret, bld>>

\* Drop for JobTmpFiles without the remove_file of the tracefile.
drop_trace_keeps(p) ==
    /\ pc[p] = "drop_trace"
    /\ IF loc[p].res = ""
       THEN /\ pc' = [pc EXCEPT ![p] = "stamp"]
            /\ loc' = [loc EXCEPT ![p].snap = <<>>, ![p].kids = 0]
       ELSE /\ pc' = [pc EXCEPT ![p] = "exit"]
            /\ loc' = [loc EXCEPT ![p] = Ended(p, loc[p].res)]
    /\ UNCHANGED <<disk, tmp, wip, traces, artifacts, inv, starts, ret, bld>>

\* Drop for JobTmpFiles, lib.rs 102-104: remove the tracefile.  build returns
\* Ok after exit code 102 and the error otherwise.
drop_trace(p) ==
    /\ pc[p] = "drop_trace"
    /\ wip' = [wip EXCEPT ![inv[p].target] = NoFile]
    /\ IF loc[p].res = ""
       THEN /\ pc' = [pc EXCEPT ![p] = "stamp"]
            /\ loc' = Released([loc EXCEPT ![p].snap = <<>>, ![p].kids = 0],
                               p, inv[p].target, "released")
       ELSE /\ pc' = [pc EXCEPT ![p] = "exit"]
            /\ loc' = Released([loc EXCEPT ![p] = Ended(p, loc[p].res)],
                               p, inv[p].target, "released")
    /\ UNCHANGED <<disk, tmp, traces, artifacts, inv, starts, ret, bld>>

----------------------------------------------------------------------------
(* main.rs build after redux::build returned: stamp, insert, append, and   *)
(* the early exit with code 102.                                           *)

\* main.rs 241-242: FileStamp::new(target), then Artifacts::new.
thread_stamp(p) ==
    /\ pc[p] = "stamp"
    /\ IF disk[inv[p].target] = None
       THEN /\ pc' = [pc EXCEPT ![p] = "exit"]
            /\ loc' = [loc EXCEPT ![p] = Ended(p, "err")]
       ELSE /\ pc' = [pc EXCEPT ![p] = "insert"]
            /\ loc' = [loc EXCEPT ![p].stamp = Hash(disk[inv[p].target]),
                                  ![p].listing = Artifacts_new]
    /\ UNCHANGED <<disk, tmp, wip, traces, artifacts, inv, starts, ret, bld>>

\* main.rs 242: insert.  Without REDUX_TRACEFILE the line is printed and the
\* invocation ends (main.rs 255, 265-275).
thread_insert(p) ==
    /\ pc[p] = "insert"
    /\ IF CopyFails(p, inv[p].target)
       THEN /\ pc' = [pc EXCEPT ![p] = "exit"]
            /\ loc' = [loc EXCEPT ![p] = Ended(p, "err")]
            /\ UNCHANGED artifacts
       ELSE /\ Artifacts_insert(p, inv[p].target)
            /\ IF inv[p].ptf = None
               THEN /\ pc' = [pc EXCEPT ![p] = "exit"]
                    /\ loc' = [loc EXCEPT ![p] = Ended(p, "ok")]
               ELSE /\ pc' = [pc EXCEPT ![p] = "append"]
                    /\ loc' = [loc EXCEPT ![p].listing = {}]
    /\ UNCHANGED <<disk, tmp, wip, traces, inv, starts, ret, bld>>

\* main.rs 252-275 without the test of force at line 265.
append_line_unforced(p) ==
    /\ pc[p] = "append"
    /\ IF wip[inv[p].ptf] = NoFile
       THEN /\ pc' = [pc EXCEPT ![p] = "exit"]
            /\ loc' = [loc EXCEPT ![p] = Ended(p, "err")]
            /\ UNCHANGED wip
       ELSE /\ TraceFile_append(inv[p].ptf,
                  Line(IF loc[p].isSrc THEN "source" ELSE "generated",
                       inv[p].target, loc[p].stamp))
            /\ pc' = [pc EXCEPT ![p] = "bail"]
            /\ UNCHANGED loc
    /\ UNCHANGED <<disk, tmp, traces, artifacts, inv, starts, ret, bld>>

\* main.rs 243-255: the source or generated line is appended to the tracefile
\* of REDUX_TRACEFILE.
append_line(p) ==
    /\ pc[p] = "append"
    /\ IF wip[inv[p].ptf] = NoFile
       THEN /\ pc' = [pc EXCEPT ![p] = "exit"]
            /\ loc' = [loc EXCEPT ![p] = Ended(p, "err")]
            /\ UNCHANGED wip
       ELSE /\ TraceFile_append(inv[p].ptf,
                  Line(IF loc[p].isSrc THEN "source" ELSE "generated",
                       inv[p].target, loc[p].stamp))
            /\ pc' = [pc EXCEPT ![p] = IF inv[p].force THEN "exit" ELSE "bail"]
            /\ loc' = [loc EXCEPT ![p] = IF inv[p].force THEN Ended(p, "ok") ELSE @]
    /\ UNCHANGED <<disk, tmp, traces, artifacts, inv, starts, ret, bld>>

\* main.rs 265-274: unless forced, try_restore the job of REDUX_TRACEFILE; on
\* a hit exit with code 102.
bail_out(p) ==
    /\ pc[p] = "bail"
    /\ pc' = [pc EXCEPT ![p] = "exit"]
    /\ IF wip[inv[p].ptf] = NoFile
       THEN /\ loc' = [loc EXCEPT ![p] = Ended(p, "err")]
            /\ UNCHANGED disk
       ELSE LET job == TraceFile_read(wip[inv[p].ptf].lines).job
                trees == ValidTrees(p, job)
            IN  IF trees = {}
                THEN /\ loc' = [loc EXCEPT ![p] = Ended(p, "ok")]
                     /\ UNCHANGED disk
                ELSE \E tree \in trees :
                       IF tree # Overflow /\ CanRestore(tree, job)
                       THEN /\ Artifacts_restore(OutputFor(tree, job[2]))
                            /\ loc' = [loc EXCEPT ![p] = Ended(p, "102")]
                       ELSE /\ loc' = [loc EXCEPT ![p] = Ended(p, "panic")]
                            /\ UNCHANGED disk
    /\ UNCHANGED <<tmp, wip, traces, artifacts, inv, starts, ret, bld>>

----------------------------------------------------------------------------

Next ==
    \E p \in Procs :
       \/ \E t \in Targets, f \in BOOLEAN : StartTop(p, t, f)
       \/ \E q \in Procs, d \in Targets \cup Sources : RuleDeclare(p, q, d)
       \/ \E q \in Procs : RuleAlways(p, q)
       \/ Volatile(p)
       \/ build_try_restore(p)
       \/ TraceFile_create(p)
       \/ \E c \in Contents : RuleWrite(p, c)
       \/ commit_rename_out(p)
       \/ commit_stamp(p)
       \/ commit_insert(p)
       \/ commit_finish(p)
       \/ commit_rename(p)
       \/ actually_run_bail(p)
       \/ actually_run_failed(p)
       \/ drop_trace(p)
       \/ thread_stamp(p)
       \/ thread_insert(p)
       \/ append_line(p)
       \/ bail_out(p)

Spec == Init /\ [][Next]_vars

----------------------------------------------------------------------------
(* One top-level invocation `redux [--force] t [u]`, with or without       *)
(* REDUX_FORCE, and the processes of its tree; the traces directory may    *)
(* hold the trace of an earlier invocation whose rule ran `redux --always`. *)

\* The tracefile of one run of a.do under REDUX_BUILD_ID "B0" that ran
\* `redux --always` and wrote "x".
VolatileTrace ==
    <<Line("job", "a", "a.do"), Line("source", "a.do", Hash("ra")),
      Line("valid_for", "", "B0"), Line("produced", "a", Hash("x"))>>

InitTree ==
    /\ tmp = [t \in Targets |-> None]
    /\ wip = [t \in Targets |-> NoFile]
    /\ pc = [p \in Procs |-> "idle"]
    /\ inv = [p \in Procs |-> NoInv]
    /\ loc = [p \in Procs |-> NoLoc]
    /\ starts = 0
    /\ ret = <<>>
    /\ bld = NoBuild
    /\ \/ /\ disk = FreshDisk
          /\ traces = {}
          /\ artifacts = [h \in AllHashes |-> None]
       \/ /\ disk = [FreshDisk EXCEPT !["a"] = "x"]
          /\ traces \in {{[name |-> HashLines(l), lines |-> l]} : l \in {FirstTrace, VolatileTrace}}
          /\ artifacts = [h \in AllHashes |-> IF h = Hash("x") THEN "x" ELSE None]

NextTree ==
    \E p \in Procs :
       \/ starts = 0 /\ \E t \in Targets, f \in BOOLEAN : StartTop(p, t, f)
       \/ starts = 0 /\ \E t \in Targets : StartTopEnv(p, t)
       \/ \E q \in Procs, t \in Targets : StartSibling(p, q, t)
       \/ \E q \in Procs, d \in Targets \cup Sources : RuleDeclare(p, q, d)
       \/ \E q \in Procs : RuleAlways(p, q)
       \/ Volatile(p)
       \/ build_try_restore(p)
       \/ TraceFile_create(p)
       \/ \E c \in Contents : RuleWrite(p, c)
       \/ commit_rename_out(p)
       \/ commit_stamp(p)
       \/ commit_insert(p)
       \/ commit_finish(p)
       \/ commit_rename(p)
       \/ actually_run_bail(p)
       \/ actually_run_failed(p)
       \/ drop_trace(p)
       \/ thread_stamp(p)
       \/ thread_insert(p)
       \/ append_line(p)
       \/ bail_out(p)

SpecTree == InitTree /\ [][NextTree]_vars

----------------------------------------------------------------------------
(* The builds of a work tree that has a.do and no rule for b.               *)

InitNoRule ==
    /\ tmp = [t \in Targets |-> None]
    /\ wip = [t \in Targets |-> NoFile]
    /\ pc = [p \in Procs |-> "idle"]
    /\ inv = [p \in Procs |-> NoInv]
    /\ loc = [p \in Procs |-> NoLoc]
    /\ starts = 0
    /\ ret = <<>>
    /\ bld = NoBuild
    /\ disk = [FreshDisk EXCEPT !["b.do"] = None]
    /\ traces = {}
    /\ artifacts = [h \in AllHashes |-> None]

SpecNoRule == InitNoRule /\ [][Next]_vars

----------------------------------------------------------------------------
(* One invocation `redux [--force] a` whose rule declares b or s, in a     *)
(* work tree where b may be missing, built earlier or written by the user, *)
(* and where the rule that built b may since have been removed or shadowed. *)

\* The tracefile of the build of b by rule that wrote "x".
BuiltLines(rule, content) ==
    <<Line("job", "b", rule), Line("source", rule, Hash(content)),
      Line("produced", "b", Hash("x"))>>

InitSource ==
    /\ tmp = [t \in Targets |-> None]
    /\ wip = [t \in Targets |-> NoFile]
    /\ pc = [p \in Procs |-> "idle"]
    /\ inv = [p \in Procs |-> NoInv]
    /\ loc = [p \in Procs |-> NoLoc]
    /\ starts = 0
    /\ ret = <<>>
    /\ bld = NoBuild
    /\ disk \in {[FreshDisk EXCEPT !["b"] = c, !["b.do"] = r, !["default.do"] = d] :
                   c \in Contents \cup {None}, r \in {"rb", None}, d \in {"rd", None}}
    /\ traces \in {{[name |-> HashLines(l), lines |-> l] : l \in S} :
                     S \in SUBSET {BuiltLines("b.do", "rb"), BuiltLines("default.do", "rd")}}
    /\ artifacts = [h \in AllHashes |-> IF h = Hash("x") /\ traces # {} THEN "x" ELSE None]

NextSource ==
    \E p \in Procs :
       \/ starts = 0 /\ \E f \in BOOLEAN : StartTop(p, "a", f)
       \/ \E q \in Procs, d \in {"b", "s"} : RuleDeclare(p, q, d)
       \/ build_try_restore(p)
       \/ TraceFile_create(p)
       \/ \E c \in Contents : RuleWrite(p, c)
       \/ commit_rename_out(p)
       \/ commit_stamp(p)
       \/ commit_insert(p)
       \/ commit_finish(p)
       \/ commit_rename(p)
       \/ actually_run_bail(p)
       \/ actually_run_failed(p)
       \/ drop_trace(p)
       \/ thread_stamp(p)
       \/ thread_insert(p)
       \/ append_line(p)
       \/ bail_out(p)

SpecSource == InitSource /\ [][NextSource]_vars

----------------------------------------------------------------------------
(* Invocations `redux [--force] a`, whose rule may declare b, between      *)
(* which the user edits the rule script a.do.                              *)

\* What a.do may hold.
RuleContents == {"ra", "r2"}

\* The user saves rule script r with content c while no redux is running.
RuleEdit(r, c) ==
    /\ disk[r] \notin {None, c}
    /\ \A p \in Procs : Free(p)
    /\ disk' = [disk EXCEPT ![r] = c]
    /\ UNCHANGED <<tmp, wip, traces, artifacts, pc, inv, loc, starts, ret, bld>>

NextEdit ==
    \/ \E c \in RuleContents : RuleEdit("a.do", c)
    \/ \E p \in Procs :
          \/ \E f \in BOOLEAN : StartTop(p, "a", f)
          \/ \E q \in Procs : RuleDeclare(p, q, "b")
          \/ build_try_restore(p)
          \/ TraceFile_create(p)
          \/ \E c \in Contents : RuleWrite(p, c)
          \/ commit_rename_out(p)
          \/ commit_stamp(p)
          \/ commit_insert(p)
          \/ commit_finish(p)
          \/ commit_rename(p)
          \/ actually_run_bail(p)
          \/ actually_run_failed(p)
          \/ drop_trace(p)
          \/ thread_stamp(p)
          \/ thread_insert(p)
          \/ append_line(p)
          \/ bail_out(p)

SpecEdit == Init /\ [][NextEdit]_vars

----------------------------------------------------------------------------
(* `redux --clean [--database]` (main.rs 152-170) before, during or after  *)
(* one `redux [--force] a` whose rule may declare b.  The process of       *)
(* --clean is the one of bld.                                              *)

\* BTreeSet<&LocalPath>: the paths of the set in their order.
RECURSIVE InOrder(_, _)
InOrder(S, names) ==
    IF names = <<>> THEN <<>>
    ELSE (IF Head(names) \in S THEN <<Head(names)>> ELSE <<>>) \o InOrder(S, Tail(names))

\* The process of --clean has ended with the exit code.
CleanExit(code) == [pc |-> "exit", code |-> code]

\* main.rs 153-155: load_all, the paths of its outputs, Artifacts::new.
StartClean(database) ==
    /\ bld = NoBuild
    /\ bld' = [pc |-> "clean", database |-> database,
               todo |-> InOrder({x[1] : x \in outputs(load_all(traces))},
                                <<"a", "a.do", "b", "b.do", "default.do", "s">>),
               listing |-> Artifacts_new, stamp |-> None]
    /\ UNCHANGED <<disk, tmp, wip, traces, artifacts, pc, inv, loc, starts, ret>>

\* main.rs 156-157: FileStamp::new of the next output; a missing file is
\* passed over.
clean_stamp ==
    /\ bld.pc = "clean"
    /\ bld.todo # <<>>
    /\ IF disk[Head(bld.todo)] = None
       THEN bld' = [bld EXCEPT !.todo = Tail(@)]
       ELSE bld' = [bld EXCEPT !.pc = "clean_insert", !.stamp = Hash(disk[Head(bld.todo)])]
    /\ UNCHANGED <<disk, tmp, wip, traces, artifacts, pc, inv, loc, starts, ret>>

\* main.rs 158: Artifacts::insert, with the listing of line 155 and what it
\* has inserted since; the copy fails when the file has gone.
clean_insert ==
    /\ bld.pc = "clean_insert"
    /\ IF bld.stamp \in bld.listing
       THEN /\ bld' = [bld EXCEPT !.pc = "clean_remove"]
            /\ UNCHANGED artifacts
       ELSE IF disk[Head(bld.todo)] = None
       THEN /\ bld' = CleanExit(1)
            /\ UNCHANGED artifacts
       ELSE /\ artifacts' = [artifacts EXCEPT ![bld.stamp] = disk[Head(bld.todo)]]
            /\ bld' = [bld EXCEPT !.pc = "clean_remove", !.listing = @ \cup {bld.stamp}]
    /\ UNCHANGED <<disk, tmp, wip, traces, pc, inv, loc, starts, ret>>

\* main.rs 159: remove_file of the output (an error when it has gone).
clean_remove ==
    /\ bld.pc = "clean_remove"
    /\ IF disk[Head(bld.todo)] = None
       THEN /\ bld' = CleanExit(1)
            /\ UNCHANGED disk
       ELSE /\ disk' = [disk EXCEPT ![Head(bld.todo)] = None]
            /\ bld' = [bld EXCEPT !.pc = "clean", !.todo = Tail(@), !.stamp = None]
    /\ UNCHANGED <<tmp, wip, traces, artifacts, pc, inv, loc, starts, ret>>

\* --database removing the artifact store, not the traces directory.
clean_database_drops_store ==
    /\ bld.pc = "clean"
    /\ bld.todo = <<>>
    /\ artifacts' = IF bld.database THEN [h \in AllHashes |-> None] ELSE artifacts
    /\ bld' = CleanExit(0)
    /\ UNCHANGED <<disk, tmp, wip, traces, pc, inv, loc, starts, ret>>

\* main.rs 167-169: with --database the traces directory is removed; the
\* next use of the directory finds it empty.
clean_database ==
    /\ bld.pc = "clean"
    /\ bld.todo = <<>>
    /\ traces' = IF bld.database THEN {} ELSE traces
    /\ bld' = CleanExit(0)
    /\ UNCHANGED <<disk, tmp, wip, artifacts, pc, inv, loc, starts, ret>>

NextClean ==
    \/ \E database \in BOOLEAN : StartClean(database)
    \/ clean_stamp
    \/ clean_insert
    \/ clean_remove
    \/ clean_database
    \/ \E p \in Procs :
          \/ starts = 0 /\ \E f \in BOOLEAN : StartTop(p, "a", f)
          \/ \E q \in Procs : RuleDeclare(p, q, "b")
          \/ build_try_restore(p)
          \/ TraceFile_create(p)
          \/ \E c \in Contents : RuleWrite(p, c)
          \/ commit_rename_out(p)
          \/ commit_stamp(p)
          \/ commit_insert(p)
          \/ commit_finish(p)
          \/ commit_rename(p)
          \/ actually_run_bail(p)
          \/ actually_run_failed(p)
          \/ drop_trace(p)
          \/ thread_stamp(p)
          \/ thread_insert(p)
          \/ append_line(p)
          \/ bail_out(p)

SpecClean == Init /\ [][NextClean]_vars

----------------------------------------------------------------------------
(* Invocations `redux [--force] a` that contend for the tracefile of a,    *)
(* under fair scheduling and with rules that exit.                         *)

\* What process p does next by itself: a step of redux, or the exit of the
\* rule it waits for (lib.rs 210).
Step(p) ==
    \/ build_try_restore(p)
    \/ TraceFile_create(p)
    \/ commit_rename_out(p)
    \/ actually_run_bail(p)
    \/ actually_run_failed(p)
    \/ commit_stamp(p)
    \/ commit_insert(p)
    \/ commit_finish(p)
    \/ commit_rename(p)
    \/ drop_trace(p)
    \/ thread_stamp(p)
    \/ thread_insert(p)

NextContend ==
    \E p \in Procs :
       \/ \E f \in BOOLEAN : StartTop(p, "a", f)
       \/ \E c \in Contents : RuleWrite(p, c)
       \/ Step(p)

\* Every process that can take a step takes one; the sleep of lib.rs 129
\* ends and the rule exits.
SpecContend == Init /\ [][NextContend]_vars /\ \A p \in Procs : WF_vars(Step(p))

----------------------------------------------------------------------------
(* valid_trace_for on its own, over graphs of up to MaxTraces tracefiles   *)
(* drawn from a pool, with the source "s" as recorded, changed or missing  *)
(* and REDUX_BUILD_ID absent or set.  The work tree may hold default.do,   *)
(* which a.do and b.do shadow: the pool has tracefiles of the builds that  *)
(* default.do did before a.do and b.do were added.                         *)

TraceLines(t, body, hash) ==
    <<Line("job", t, RuleOf(t)), Line("source", RuleOf(t), Hash(disk[RuleOf(t)]))>>
      \o body \o <<Line("produced", t, hash)>>

\* The tracefile of a build of t by default.do.
DefaultLines(t, hash) ==
    <<Line("job", t, "default.do"), Line("source", "default.do", Hash("rd")),
      Line("produced", t, hash)>>

TracePool ==
    { DefaultLines("a", "hx"),
      DefaultLines("b", "hx"),
      TraceLines("a", <<>>, "hx"),
      TraceLines("a", <<Line("source", "s", "hv")>>, "hx"),
      TraceLines("a", <<Line("generated", "b", "hx")>>, "hx"),
      TraceLines("a", <<Line("generated", "b", "hy")>>, "hx"),
      TraceLines("a", <<Line("valid_for", "", "B1")>>, "hx"),
      TraceLines("a", <<Line("valid_until", "", "t1")>>, "hx"),
      TraceLines("a", <<Line("valid_until", "", "t3")>>, "hx"),
      TraceLines("b", <<>>, "hx"),
      TraceLines("b", <<Line("source", "s", "hv")>>, "hx"),
      TraceLines("b", <<Line("generated", "a", "hx")>>, "hx") }

\* valid_trace_for returned None.
NoTree == [none |-> TRUE]

InitValid ==
    /\ tmp = [t \in Targets |-> None]
    /\ wip = [t \in Targets |-> NoFile]
    /\ pc = [p \in Procs |-> "idle"]
    /\ loc = [p \in Procs |-> NoLoc]
    /\ starts = 0
    /\ ret = <<>>
    /\ bld = NoBuild
    /\ artifacts = [h \in AllHashes |-> None]
    /\ disk \in {[FreshDisk EXCEPT !["s"] = c, !["default.do"] = d] :
                   c \in {"v", "w", None}, d \in {"rd", None}}
    /\ inv \in {[p \in Procs |-> IF p = 1 THEN [NoInv EXCEPT !.bid = b] ELSE NoInv] :
                  b \in {<<>>, <<"B1">>}}
    /\ traces \in {{[name |-> HashLines(l), lines |-> l] : l \in S} :
                     S \in {P \in SUBSET TracePool : Cardinality(P) <= MaxTraces}}

\* try_restore's call (lib.rs 141-142): load, then valid_trace_for(job).
Apply_valid_trace_for(job) ==
    /\ ret = <<>>
    /\ LET Out == valid_trace_for(load(traces), job, Env(1))
       IN  \E o \in (IF Out = {} THEN {NoTree} ELSE Out) :
              ret' = <<[job |-> job, out |-> o]>>
    /\ UNCHANGED <<disk, tmp, wip, traces, artifacts, pc, inv, loc, starts, bld>>

NextValid == \E t \in Targets : Apply_valid_trace_for(job_for(t))

SpecValid == InitValid /\ [][NextValid]_vars

----------------------------------------------------------------------------
(* RuleSet on its own: job_for over the walks of work trees with up to     *)
(* MaxRules do-files of a pool, and priority over the pairs of its rules.  *)

F_c == <<"f", ".", "c">>
G_c == <<"g", ".", "c">>

\* The do-files a work tree may hold.
DoFilePool ==
    { <<S_default \o S_do>>,
      <<S_default \o <<".", "c">> \o S_do>>,
      <<F_c \o S_do>>,
      <<G_c \o S_do>>,
      <<<<"d">>, S_default \o S_do>>,
      <<<<"d">>, S_default \o <<".", "c">> \o S_do>>,
      <<<<"d">>, F_c \o S_do>>,
      <<S_do>> }

\* The targets asked for.
TargetPool ==
    { <<F_c>>, <<<<"d">>, F_c>>, <<<<"d">>, <<"e">>, F_c>>, <<<<"d">>, <<"h">>>>, <<<<"h">>>> }

\* The walks of work trees with up to MaxRules do-files, in any order.
Walks ==
    {w \in UNION {[1..n -> DoFilePool] : n \in 0..MaxRules} :
       \A i, k \in 1..Len(w) : i # k => w[i] # w[k]}

InitRules ==
    /\ tmp = [t \in Targets |-> None]
    /\ wip = [t \in Targets |-> NoFile]
    /\ pc = [p \in Procs |-> "idle"]
    /\ inv = [p \in Procs |-> NoInv]
    /\ loc = [p \in Procs |-> NoLoc]
    /\ starts = 0
    /\ ret = <<>>
    /\ bld = NoBuild
    /\ disk = FreshDisk
    /\ traces = {}
    /\ artifacts = [h \in AllHashes |-> None]

\* RuleSet::scan_for_do_files()?.job_for(target), as lib.rs 110-112 calls it.
Apply_job_for(walk, target) ==
    /\ ret = <<>>
    /\ LET ruleset == scan_for_do_files(walk)
       IN  ret' = <<[op |-> "job_for", ruleset |-> ruleset, target |-> target,
                     matches |-> GlobSet_matches(ruleset, target),
                     out |-> RuleSet_job_for(ruleset, target)]>>
    /\ UNCHANGED <<disk, tmp, wip, traces, artifacts, pc, inv, loc, starts, bld>>

\* a.priority(b) and b.priority(a), as the sort of RuleSet::new calls them.
Apply_priority(pa, pb) ==
    /\ ret = <<>>
    /\ Rule_new(pa) # <<>>
    /\ Rule_new(pb) # <<>>
    /\ LET a == Rule_new(pa)[1]
           b == Rule_new(pb)[1]
       IN  ret' = <<[op |-> "priority", a |-> a, b |-> b,
                     ab |-> priority(a, b), ba |-> priority(b, a)]>>
    /\ UNCHANGED <<disk, tmp, wip, traces, artifacts, pc, inv, loc, starts, bld>>

NextRules ==
    \/ \E walk \in Walks, target \in TargetPool : Apply_job_for(walk, target)
    \/ \E pa \in DoFilePool, pb \in DoFilePool : Apply_priority(pa, pb)

SpecRules == InitRules /\ [][NextRules]_vars

----------------------------------------------------------------------------
(* main.rs build with several targets: the main thread, the jobserver and  *)
(* the worker threads of one invocation.  What a worker does to the work   *)
(* tree is in the actions of Spec; here a worker runs and ends.            *)

\* main.rs 188.
needs_jobserver(targets, jobs) == targets > jobs

\* The process has not ended.
Alive == bld.pc \notin {"none", "exit"}

Exit(code) == [bld EXCEPT !.pc = "exit", !.code = code]

\* `redux [--force] [-j jobs] t1 .. tn`, with or without REDUX_TRACEFILE;
\* get_jobserver(jobs) makes a jobserver of `jobs` tokens (main.rs 278-289).
InitJobs ==
    /\ tmp = [t \in Targets |-> None]
    /\ wip = [t \in Targets |-> NoFile]
    /\ pc = [p \in Procs |-> "idle"]
    /\ inv = [p \in Procs |-> NoInv]
    /\ loc = [p \in Procs |-> NoLoc]
    /\ starts = 0
    /\ ret = <<>>
    /\ disk = FreshDisk
    /\ traces = {}
    /\ artifacts = [h \in AllHashes |-> None]
    /\ bld \in {[pc |-> "acquire", targets |-> n, jobs |-> j, force |-> f,
                  tracefile |-> tf,
                  tokens |-> IF needs_jobserver(n, j) THEN j ELSE 0,
                  token |-> FALSE, threads |-> <<>>, joined |-> 0,
                  errored |-> FALSE, code |-> -1] :
                    n \in 1..MaxTargets, j \in 1..MaxJobs, f \in BOOLEAN,
                    tf \in {"none", "there"}}

\* main.rs 231-233: acquire blocks until the jobserver has a token.
acquire ==
    /\ bld.pc = "acquire"
    /\ IF needs_jobserver(bld.targets, bld.jobs)
       THEN /\ bld.tokens > 0
            /\ bld' = [bld EXCEPT !.pc = "spawn", !.tokens = @ - 1, !.token = TRUE]
       ELSE bld' = [bld EXCEPT !.pc = "spawn"]
    /\ UNCHANGED <<disk, tmp, wip, traces, artifacts, pc, inv, loc, starts, ret>>

\* main.rs 234-249: the closure takes target and force; the thread runs.
spawn ==
    /\ bld.pc = "spawn"
    /\ bld' = [bld EXCEPT !.pc = "drop", !.threads = Append(@, "running")]
    /\ UNCHANGED <<disk, tmp, wip, traces, artifacts, pc, inv, loc, starts, ret>>

\* main.rs 250: std::mem::drop(token) gives the token back to the jobserver;
\* then the next target, or the join loop.
drop_token ==
    /\ bld.pc = "drop"
    /\ bld' = [bld EXCEPT !.pc = IF Len(bld.threads) < bld.targets THEN "acquire" ELSE "join",
                          !.tokens = IF bld.token THEN @ + 1 ELSE @,
                          !.token = FALSE]
    /\ UNCHANGED <<disk, tmp, wip, traces, artifacts, pc, inv, loc, starts, ret>>

\* main.rs 235-248: the closure returns Ok(line) or an error, or panics
\* (the assertion of Artifacts::restore, the unwrap of lib.rs 150).
worker_ends(i, how) ==
    /\ Alive
    /\ i \in 1..Len(bld.threads)
    /\ bld.threads[i] = "running"
    /\ bld' = [bld EXCEPT !.threads[i] = how]
    /\ UNCHANGED <<disk, tmp, wip, traces, artifacts, pc, inv, loc, starts, ret>>

\* depgraph.rs 149-175 in try_restore of a worker: the stack of the thread
\* overflows on a graph with a cycle, and the process is aborted.
worker_overflows(i) ==
    /\ Alive
    /\ i \in 1..Len(bld.threads)
    /\ bld.threads[i] = "running"
    /\ bld' = [Exit(134) EXCEPT !.threads[i] = "overflow"]
    /\ UNCHANGED <<disk, tmp, wip, traces, artifacts, pc, inv, loc, starts, ret>>

\* lib.rs 83, 102: the rule that started this invocation has exited without
\* waiting for it, and its tracefile has been renamed or removed.
tracefile_goes ==
    /\ Alive
    /\ bld.tracefile = "there"
    /\ bld' = [bld EXCEPT !.tracefile = "gone"]
    /\ UNCHANGED <<disk, tmp, wip, traces, artifacts, pc, inv, loc, starts, ret>>

\* main.rs 252-260: join the threads in the order of the targets.  Ok: the
\* line is appended (`?`: an error of the open ends main); Err: errored; a
\* panic of the thread is an Err of join, and unwrap panics.
join ==
    /\ bld.pc = "join"
    /\ LET th == bld.threads[bld.joined + 1]
           next == [bld EXCEPT !.joined = @ + 1,
                               !.pc = IF bld.joined + 1 = bld.targets THEN "after" ELSE "join"]
       IN  /\ th # "running"
           /\ bld' = CASE th = "ok" -> IF bld.tracefile = "gone" THEN Exit(1) ELSE next
                       [] th = "err" -> [next EXCEPT !.errored = TRUE]
                       [] th = "panic" -> Exit(101)
    /\ UNCHANGED <<disk, tmp, wip, traces, artifacts, pc, inv, loc, starts, ret>>

\* main.rs 261-276: bail when errored; else, unless forced, try_restore the
\* job of REDUX_TRACEFILE and exit 102 on a hit.
after_join ==
    /\ bld.pc = "after"
    /\ \E restored \in BOOLEAN :
          bld' = IF bld.errored THEN Exit(1)
                 ELSE IF bld.force \/ bld.tracefile = "none" THEN Exit(0)
                 ELSE IF bld.tracefile = "gone" THEN Exit(1)
                 ELSE IF restored THEN Exit(102)
                 ELSE Exit(0)
    /\ UNCHANGED <<disk, tmp, wip, traces, artifacts, pc, inv, loc, starts, ret>>

NextJobs ==
    \/ acquire
    \/ spawn
    \/ drop_token
    \/ \E i \in 1..MaxTargets, how \in {"ok", "err", "panic"} : worker_ends(i, how)
    \/ \E i \in 1..MaxTargets : worker_overflows(i)
    \/ tracefile_goes
    \/ join
    \/ after_join

SpecJobs == InitJobs /\ [][NextJobs]_vars

----------------------------------------------------------------------------
(* The text of a tracefile (trace.rs, filestamp.rs).  A text is a sequence *)
(* of symbols: the characters that the formats give a meaning (" ", "@",   *)
(* "=", ",", "(", ")", "\n"), and names that stand for a run of other      *)
(* characters.                                                             *)

Ok(x) == [res |-> "Ok", val |-> x]
Err == [res |-> "Err"]
Panic == [res |-> "panic"]

\* str::split_once: <<>> is None.
split_once(str, ch) ==
    IF \E i \in 1..Len(str) : str[i] = ch
    THEN LET i == CHOOSE i \in 1..Len(str) : str[i] = ch /\ \A k \in 1..(i - 1) : str[k] # ch
         IN  <<SubSeq(str, 1, i - 1), SubSeq(str, i + 1, Len(str))>>
    ELSE <<>>

\* str::split: the pieces between the occurrences of ch, at least one.
RECURSIVE split(_, _)
split(str, ch) ==
    LET sp == split_once(str, ch)
    IN  IF sp = <<>> THEN <<str>> ELSE <<sp[1]>> \o split(sp[2], ch)

\* str::lines: the pieces between newlines, without an empty last one.
str_lines(txt) ==
    LET pieces == split(txt, "\n")
    IN  IF pieces[Len(pieces)] = <<>> THEN SubSeq(pieces, 1, Len(pieces) - 1) ELSE pieces

RECURSIVE trim_end_matches(_, _)
trim_end_matches(str, ch) ==
    IF str # <<>> /\ str[Len(str)] = ch
    THEN trim_end_matches(SubSeq(str, 1, Len(str) - 1), ch)
    ELSE str

RECURSIVE trim_start_matches(_, _)
trim_start_matches(str, pat) ==
    IF Len(str) >= Len(pat) /\ SubSeq(str, 1, Len(pat)) = pat
    THEN trim_start_matches(SubSeq(str, Len(pat) + 1, Len(str)), pat)
    ELSE str

\* writeln!(f, "{}", line) for each line.
RECURSIVE Written(_)
Written(ls) == IF ls = <<>> THEN <<>> ELSE Head(ls) \o <<"\n">> \o Written(Tail(ls))

\* JobSpec with its env: a list of <<key, value>>.
JobSpecEnv(rule, target, env) == [rule |-> rule, target |-> target, env |-> env]

\* Display for JobSpec (trace.rs 20-30): rule(target, k=v, ..).
RECURSIVE JobSpec_fmt_env(_)
JobSpec_fmt_env(env) ==
    IF env = <<>> THEN <<>>
    ELSE <<",", " ">> \o env[1][1] \o <<"=">> \o env[1][2] \o JobSpec_fmt_env(Tail(env))

JobSpec_fmt(job) ==
    job.rule \o <<"(">> \o job.target \o JobSpec_fmt_env(job.env) \o <<")">>

\* FromStr for JobSpec (trace.rs 32-48); LocalPath::from_str takes any text.
JobSpec_from_str(str) ==
    LET sp == split_once(str, "(")
    IN  IF sp = <<>> THEN Err
        ELSE LET args == split(trim_end_matches(sp[2], ")"), ",")
                 rest == Tail(args)
                 kv(i) == split_once(rest[i], "=")
             IN  IF \E i \in 1..Len(rest) : kv(i) = <<>> THEN Panic
                 ELSE Ok(JobSpecEnv(sp[1], args[1], [i \in 1..Len(rest) |-> kv(i)]))

\* The printed forms of the values of other crates, each a run of characters
\* without a symbol of the formats: a blake3 hash in hex, a uuid, an RFC 3339
\* timestamp.  Their parsers take back what their Display prints.
Hashes == AllHashes
Uuids == {"B0", "B1"}
Timestamps == {"t1", "t3"}

Atom_fmt(x) == <<x>>
Atom_from_str(str, Valid) ==
    IF Len(str) = 1 /\ str[1] \in Valid THEN Ok(str[1]) ELSE Err

\* Display for FileStamp (filestamp.rs 14-29), plain: path@hash.
FileStamp_fmt(path, hash) == path \o <<"@">> \o Atom_fmt(hash)

\* FromStr for FileStamp (filestamp.rs 31-41): Ok(<<path, hash>>).
FileStamp_from_str(str) ==
    LET sp == split_once(str, "@")
    IN  IF sp = <<>> THEN Err
        ELSE LET hash == Atom_from_str(sp[2], Hashes)
             IN  IF hash = Err THEN Err ELSE Ok(<<sp[1], hash.val>>)

\* Display for EnvVar (trace.rs 227-231): "{}={} ".
EnvVar_fmt(key, val) == key \o <<"=">> \o val \o <<" ">>

\* FromStr for EnvVar (trace.rs 232-243).
EnvVar_from_str(str) ==
    LET sp == split_once(str, "=")
    IN  IF sp = <<>> THEN Err ELSE Ok(<<sp[1], sp[2]>>)

StampTags == {"source", "generated", "produced"}

\* Display for TraceFileLine (trace.rs 186-201).
TraceFileLine_fmt(line) ==
    <<line.tag, " ">> \o
      (CASE line.tag = "job" -> JobSpec_fmt(line.val)
         [] line.tag \in StampTags -> FileStamp_fmt(line.path, line.val)
         [] line.tag = "env_var" -> EnvVar_fmt(line.path, line.val)
         [] line.tag \in {"data", "valid_for", "valid_until"} -> Atom_fmt(line.val))

\* FromStr for TraceFileLine (trace.rs 203-219).
TraceFileLine_from_str(str) ==
    LET sp == split_once(str, " ")
        x == IF sp = <<>> THEN str ELSE sp[1]
        y == IF sp = <<>> THEN <<>> ELSE sp[2]
        tag == IF Len(x) = 1 THEN x[1] ELSE ""
    IN  CASE tag \in StampTags ->
               LET r == FileStamp_from_str(y)
               IN  IF r = Err THEN Err ELSE Ok(Line(tag, r.val[1], r.val[2]))
          [] tag = "env_var" ->
               LET r == EnvVar_from_str(y)
               IN  IF r = Err THEN Err ELSE Ok(Line(tag, r.val[1], r.val[2]))
          [] tag \in {"data", "valid_for", "valid_until"} ->
               LET r == Atom_from_str(y, CASE tag = "data" -> Hashes
                                           [] tag = "valid_for" -> Uuids
                                           [] OTHER -> Timestamps)
               IN  IF r = Err THEN Err ELSE Ok(Line(tag, "", r.val))
          [] OTHER -> Err

\* Trace::parse stopping at the first line that does not parse.
RECURSIVE Trace_parse_str_stops(_, _)
Trace_parse_str_stops(trace, ls) ==
    IF ls = <<>> THEN trace
    ELSE LET r == TraceFileLine_from_str(Head(ls))
         IN  IF r = Err THEN trace
             ELSE Trace_parse_str_stops(merge(trace, r.val), Tail(ls))

\* Trace::parse (trace.rs 155-164) on the lines of a text: a line that
\* parses is merged, another one is logged.
RECURSIVE Trace_parse_str(_, _)
Trace_parse_str(trace, ls) ==
    IF ls = <<>> THEN trace
    ELSE LET r == TraceFileLine_from_str(Head(ls))
         IN  Trace_parse_str(IF r = Err THEN trace ELSE merge(trace, r.val), Tail(ls))

\* TraceFile::read (trace.rs 283-289) on the text of the file.
TraceFile_read_str(txt) ==
    LET sp == split_once(txt, "\n")
    IN  IF sp = <<>> THEN Panic
        ELSE LET job == JobSpec_from_str(trim_start_matches(sp[1], <<"job", " ">>))
             IN  IF job.res # "Ok" THEN job
                 ELSE Ok(Trace_parse_str(EmptyTrace(job.val), str_lines(sp[2])))

\* The jobs, lines and tracefile texts that the functions are applied to.
JobPool ==
    {JobSpecEnv(<<"a.do">>, target, env) :
       target \in {<<"a">>, <<"b">>},
       env \in {<<>>, <<<< <<"K">>, <<"v">> >>>>,
                <<<< <<"K">>, <<"v">> >>, << <<"L">>, <<>> >>>>}}

LineTags == {"job", "env_var", "data", "valid_for", "valid_until"} \cup StampTags

LinePool(tag) ==
    CASE tag = "job" -> {Line("job", "", job) : job \in JobPool}
      [] tag \in StampTags ->
            {Line(tag, path, hash) : path \in {<<"a">>, <<"a", " ", "b">>}, hash \in {"hx", "hy"}}
      [] tag = "env_var" ->
            {Line("env_var", <<"K">>, val) : val \in {<<"v">>, <<>>, <<"v", " ", "w">>}}
      [] tag = "data" -> {Line("data", "", hash) : hash \in {"hx", "hy"}}
      [] tag = "valid_for" -> {Line("valid_for", "", id) : id \in Uuids}
      [] tag = "valid_until" -> {Line("valid_until", "", t) : t \in Timestamps}

\* Lines of a tracefile body: as TraceFile::append writes them, and lines
\* that no append of redux writes.
BodyPool ==
    { TraceFileLine_fmt(Line("source", <<"s">>, "hv")),
      TraceFileLine_fmt(Line("generated", <<"b">>, "hy")),
      TraceFileLine_fmt(Line("produced", <<"a">>, "hx")),
      TraceFileLine_fmt(Line("valid_until", "", "t1")),
      TraceFileLine_fmt(Line("valid_until", "", "t3")),
      <<"source", " ", "s">>,
      <<"source", " ", "s", "@", "zz">>,
      <<"garbage">> }

HeaderPool ==
    { TraceFileLine_fmt(Line("job", "", JobSpecEnv(<<"a.do">>, <<"a">>, <<>>))),
      <<"job", " ", "a.do">>,
      <<"job", " ", "a.do", "(", "a", ",", "b", ")">>,
      <<"garbage">> }

Bodies == UNION {[1..n -> BodyPool] : n \in 0..MaxLines}

TextPool == {<<>>} \cup {Written(<<h>> \o body) : h \in HeaderPool, body \in Bodies}

InitText ==
    /\ tmp = [t \in Targets |-> None]
    /\ wip = [t \in Targets |-> NoFile]
    /\ pc = [p \in Procs |-> "idle"]
    /\ inv = [p \in Procs |-> NoInv]
    /\ loc = [p \in Procs |-> NoLoc]
    /\ starts = 0
    /\ ret = <<>>
    /\ bld = NoBuild
    /\ disk = FreshDisk
    /\ traces = {}
    /\ artifacts = [h \in AllHashes |-> None]

\* job.to_string().parse::<JobSpec>().
Apply_JobSpec(job) ==
    /\ ret = <<>>
    /\ ret' = <<[op |-> "JobSpec", in |-> job, txt |-> JobSpec_fmt(job),
                 out |-> JobSpec_from_str(JobSpec_fmt(job))]>>
    /\ UNCHANGED <<disk, tmp, wip, traces, artifacts, pc, inv, loc, starts, bld>>

\* line.to_string().parse::<TraceFileLine>().
Apply_TraceFileLine(line) ==
    /\ ret = <<>>
    /\ ret' = <<[op |-> "TraceFileLine", in |-> line, txt |-> TraceFileLine_fmt(line),
                 out |-> TraceFileLine_from_str(TraceFileLine_fmt(line))]>>
    /\ UNCHANGED <<disk, tmp, wip, traces, artifacts, pc, inv, loc, starts, bld>>

\* TraceFile::read of a file with the text.
Apply_TraceFile_read(txt) ==
    /\ ret = <<>>
    /\ ret' = <<[op |-> "read", txt |-> txt, out |-> TraceFile_read_str(txt)]>>
    /\ UNCHANGED <<disk, tmp, wip, traces, artifacts, pc, inv, loc, starts, bld>>

NextText ==
    \/ \E job \in JobPool : Apply_JobSpec(job)
    \/ \E tag \in LineTags : \E line \in LinePool(tag) : Apply_TraceFileLine(line)
    \/ \E txt \in TextPool : Apply_TraceFile_read(txt)

SpecText == InitText /\ [][NextText]_vars

----------------------------------------------------------------------------
(* `redux --depgraph` up to drop_out_of_date (main.rs 321-326), over the   *)
(* work trees and traces directories of InitValid.                         *)

\* DepGraph.traces: the map from the jobs to the sets of their traces.
traces_map(G) == [j \in {e.job : e \in G} |-> {e \in G : e.job = j}]

\* t.sources.iter().all(|s| s.is_valid().unwrap()) (depgraph.rs 111): all
\* stops at the first stamp that is not valid; unwrap panics on the first
\* stamp it reaches whose file cannot be read.
RECURSIVE all_is_valid(_, _)
all_is_valid(stamps, files) ==
    IF stamps = <<>> THEN "true"
    ELSE LET v == is_valid(Head(stamps), files)
         IN  IF v = "err" THEN "panic"
             ELSE IF v = "false" THEN "false"
             ELSE all_is_valid(Tail(stamps), files)

\* drop_out_of_date keeping the keys that lost all their traces.
drop_out_of_date_keeps_keys(M, files) ==
    IF \E j \in DOMAIN M : \E t \in M[j] : all_is_valid(t.sources, files) = "panic"
    THEN Panic
    ELSE Ok([j \in DOMAIN M |-> {t \in M[j] : all_is_valid(t.sources, files) = "true"}])

\* DepGraph::drop_out_of_date (depgraph.rs 106-123): retain visits every
\* trace of every job; a job whose set becomes empty is dropped.
drop_out_of_date(M, files) ==
    IF \E j \in DOMAIN M : \E t \in M[j] : all_is_valid(t.sources, files) = "panic"
    THEN Panic
    ELSE LET kept == [j \in DOMAIN M |->
                        {t \in M[j] : all_is_valid(t.sources, files) = "true"}]
         IN  Ok([j \in {k \in DOMAIN M : kept[k] # {}} |-> kept[j]])

\* main.rs 321-326 without --all: load_all, drop_superseded, drop_out_of_date.
Apply_drop_out_of_date ==
    /\ ret = <<>>
    /\ ret' = <<[op |-> "drop_out_of_date", in |-> traces_map(load(traces)),
                 out |-> drop_out_of_date(traces_map(load(traces)), disk)]>>
    /\ UNCHANGED <<disk, tmp, wip, traces, artifacts, pc, inv, loc, starts, bld>>

NextDrop == Apply_drop_out_of_date

SpecDrop == InitValid /\ [][NextDrop]_vars

----------------------------------------------------------------------------
(* The claims.                                                             *)

C2_WaiterRestores ==
    \A q \in Procs :
       ~inv[q].force /\ loc[q].waited = "committed" => pc[q] \notin Holding

\* The predicate of C3, as a least fixed point: the entries of G that are
\* reusable by a derivation of height at most k.
RECURSIVE ReusableWithin(_, _, _)
ReusableWithin(G, env, k) ==
    IF k = 0 THEN {}
    ELSE LET R == ReusableWithin(G, env, k - 1)
         IN  {e \in G :
                /\ e.valid_until = <<>> \/ e.valid_until[1] >= env.now
                /\ e.valid_for = <<>> \/ env.bid = e.valid_for
                /\ \A i \in 1..Len(e.sources) :
                      /\ env.files[e.sources[i][1]] # None
                      /\ Hash(env.files[e.sources[i][1]]) = e.sources[i][2]
                /\ \A i \in 1..Len(e.intermediates) :
                      \E w \in G : e.intermediates[i] \in SeqRange(w.outputs) /\ w \in R}

Reusable(G, env) == ReusableWithin(G, env, Cardinality(G))

\* C3: valid_trace_for(J) returns a BuildTree if and only if some trace of J
\* in the loaded graph is reusable (valid_until absent or not past, valid_for
\* absent or the current BuildId, every source stamp matching the disk, every
\* intermediate an output of some reusable trace); the tree returned is that
\* of a reusable trace of J and has one witness subtree per intermediate.
C3_TreeIffReusable ==
    ret # <<>> =>
       LET G == load(traces)
           r == ret[1]
           Good == {e \in Reusable(G, Env(1)) : e.job = r.job}
       IN  IF Good = {} THEN r.out \in {NoTree, Overflow}
           ELSE /\ r.out \notin {NoTree, Overflow}
                /\ \E e \in Good :
                      /\ r.out.sources = e.sources
                      /\ r.out.outputs = e.outputs
                      /\ Len(r.out.intermediates) = Len(e.intermediates)
                      /\ \A i \in 1..Len(e.intermediates) :
                            /\ r.out.intermediates[i][1] = e.intermediates[i]
                            /\ e.intermediates[i] \in SeqRange(r.out.intermediates[i][2].outputs)

\* C4: a non-forced build whose graph holds a valid trace for the job
\* returns from try_restore with the target restored: no tracefile is
\* created, no rule runs, no trace is published, and the target file then has
\* the content whose hash is the produced stamp of the trace.
C4_RestoreHit ==
    [][\A p \in Procs :
          /\ pc[p] = "try"
          /\ pc'[p] # "try"
          /\ ~inv[p].force
          /\ ValidTrees(p, job_for(inv[p].target)) # {}
          => /\ pc'[p] = "stamp"
             /\ UNCHANGED <<tmp, wip, traces>>
             /\ \E tree \in ValidTrees(p, job_for(inv[p].target)) \ {Overflow} :
                   /\ loc'[p].stamp = OutputFor(tree, inv[p].target)[2]
                   /\ disk'[inv[p].target] # None
                   /\ Hash(disk'[inv[p].target]) = loc'[p].stamp]_vars

\* C5: every file of the artifact store has the content its name is the
\* hash of.
C5_StoreConsistent ==
    \A h \in AllHashes : artifacts[h] # None => Hash(artifacts[h]) = h

\* The produced lines of a tracefile.
Produced(lines) == {i \in 1..Len(lines) : lines[i].tag = "produced"}

\* C6: every tracefile of the traces directory has exactly one produced
\* line, and the store holds a file named by the hash of that stamp for as
\* long as the trace is visible; what DepGraph loads are the files of the
\* traces directory, each with its one output.
C6_TraceHasArtifact ==
    /\ \A f \in traces :
          /\ Cardinality(Produced(f.lines)) = 1
          /\ \A i \in Produced(f.lines) : artifacts[f.lines[i].val] # None
    /\ \A e \in load_all(traces) :
          /\ Len(e.outputs) = 1
          /\ e.outputs[1][2] \in Artifacts_new

\* A process has just renamed its tracefile into the traces directory while
\* the tracefile of another build is in progress.
C6_Witness ==
    \E p \in Procs :
       /\ pc[p] = "stamp"
       /\ loc[p].rc = 0
       /\ traces # {}
       /\ \E t \in Targets : wip[t] # NoFile

\* C7: every tracefile of the traces directory is named after the hash of
\* its bytes.
C7_TraceNaming ==
    \A f \in traces : f.name = HashLines(f.lines)

OnItsOwn(p) == loc[p].snap[5] /\ starts = loc[p].snap[4] + loc[p].kids

\* The traces of the job of target t among the tracefiles F.
TracesOf(F, t) == {f \in F : f.lines[1].path = t}

\* C9 as stated: after a run whose rule exited with a code other than 0 and
\* 102 the build has failed, and the target file, the store and the traces
\* directory are as they were when the run began (seen when the invocations
\* the rule started have all succeeded).
C9_FrameExact ==
    \A p \in Procs :
       /\ pc[p] = "exit"
       /\ loc[p].rc = 1
       /\ OnItsOwn(p)
       /\ \A q \in Procs \ {p} : pc[q] = "exit" => loc[q].res = "ok"
       /\ \A q \in Procs : Free(q)
       =>
          /\ loc[p].res = "err"
          /\ disk[inv[p].target] = loc[p].snap[1]
          /\ artifacts = loc[p].snap[2]
          /\ traces = loc[p].snap[3]

\* C9, amended: after such a run the build has failed, no file of the store
\* has changed, and no trace of the job has been published; if the rule made
\* no declare-source call, the target file, the store and the traces
\* directory are exactly as they were when the run began.
C9_Frame ==
    \A p \in Procs :
       pc[p] = "exit" /\ loc[p].rc = 1 /\ OnItsOwn(p) =>
          /\ loc[p].res = "err"
          /\ \A h \in AllHashes :
                loc[p].snap[2][h] # None => artifacts[h] = loc[p].snap[2][h]
          /\ TracesOf(traces, inv[p].target) = TracesOf(loc[p].snap[3], inv[p].target)
          /\ loc[p].kids = 0 =>
                /\ disk[inv[p].target] = loc[p].snap[1]
                /\ artifacts = loc[p].snap[2]
                /\ traces = loc[p].snap[3]

\* A build whose rule declared nothing has failed, with a target file in
\* place.
C9_Witness ==
    \E p \in Procs :
       /\ pc[p] = "exit"
       /\ loc[p].rc = 1
       /\ OnItsOwn(p)
       /\ loc[p].kids = 0
       /\ disk[inv[p].target] # None

C11_Exit102 ==
    [][\A p \in Procs :
          /\ (loc'[p].res = "102" /\ loc[p].res # "102"
              => /\ pc[p] = "bail"
                 /\ ~inv[p].force
                 /\ inv[p].ptf # None
                 /\ wip[inv[p].ptf] # NoFile
                 /\ LET job == TraceFile_read(wip[inv[p].ptf].lines).job
                    IN  /\ job[2] = inv[p].ptf
                        /\ \E tree \in ValidTrees(p, job) \ {Overflow} :
                              /\ CanRestore(tree, job)
                              /\ disk'[job[2]] = artifacts[OutputFor(tree, job[2])[2]])
          /\ (pc'[p] = "bail" /\ pc[p] # "bail"
              => \/ inv[p].always /\ pc[p] = "volatile"
                 \/ /\ pc[p] = "append"
                    /\ loc[p].stamp \in AllHashes
                    /\ wip'[inv[p].ptf].lines =
                          Append(wip[inv[p].ptf].lines,
                                 Line(IF loc[p].isSrc THEN "source" ELSE "generated",
                                      inv[p].target, loc[p].stamp)))
          /\ (pc'[p] = "append" /\ pc[p] # "append"
              => pc[p] = "insert" /\ artifacts'[loc[p].stamp] # None)
          /\ (pc'[p] = "insert" /\ pc[p] # "insert" => pc[p] = "stamp")
          /\ (pc'[p] = "stamp" /\ pc[p] # "stamp"
              => \/ Free(p) /\ loc'[p].isSrc
                 \/ ~loc[p].isSrc /\ pc[p] \in {"try", "c_rename", "drop_trace"})]_vars

\* A declare-source invocation has exited with code 102: its line is in the
\* tracefile of the enclosing job, whose target is in place.
C11_Witness ==
    \E p \in Procs :
       /\ pc[p] = "exit"
       /\ loc[p].res = "102"
       /\ ~inv[p].always
       /\ wip[inv[p].ptf] # NoFile
       /\ \E i \in 1..Len(wip[inv[p].ptf].lines) :
             wip[inv[p].ptf].lines[i].path = inv[p].target
       /\ disk[inv[p].ptf] # None

\* The REDUX_BUILD_ID values process p has to do with: the one of its
\* environment, and the one its rule was spawned with.
BuildIds(p) ==
    (IF inv[p].bid # <<>> THEN {inv[p].bid[1]} ELSE {})
       \cup (IF pc[p] = "run" THEN {loc[p].stamp} ELSE {})

\* C12: all rules running in the process tree of one top-level invocation,
\* and all redux processes started by them, have one and the same
\* REDUX_BUILD_ID, the rules of two targets of the top-level command line
\* included.
C12_OneBuildId ==
    \A p, q \in Procs :
       ~Free(p) /\ ~Free(q) => Cardinality(BuildIds(p) \cup BuildIds(q)) <= 1

\* The traces of job in graph G that are marked valid_for an id and are
\* reusable in the environment of p once REDUX_BUILD_ID is that id.
VolatileReusable(G, job, p) ==
    {e \in G :
       /\ e.job = job
       /\ e.valid_for # <<>>
       /\ LET out == is_trace_valid(G, e, [Env(p) EXCEPT !.bid = e.valid_for], Depth(G))
          IN  out # {} /\ Overflow \notin out}

\* C13: a build that is not forced and finds a trace of its job marked
\* valid_for B, otherwise reusable, restores the target without running the
\* rule when B is an id of the top-level invocation the build belongs to;
\* when the job's only traces are marked valid_for the id "B0" of an earlier
\* top-level invocation, nothing is restored and the build goes on to take
\* the lock and run the rule.
C13_VolatileReuse ==
    [][\A p \in Procs :
          pc[p] = "try" /\ pc'[p] # "try" /\ ~inv[p].force
          => LET job == job_for(inv[p].target)
                 G == load(traces)
             IN  /\ (\E e \in VolatileReusable(G, job, p) : e.valid_for # <<"B0">>)
                       => pc'[p] = "stamp"
                 /\ ((\A e \in G : e.job = job => e.valid_for = <<"B0">>)
                       => pc'[p] = "create" /\ UNCHANGED disk)]_vars

\* C14: with force set, by --force or by REDUX_FORCE, every pass of the loop
\* of build goes to JobTmpFiles::create without a restore (the work tree is
\* not touched); create sends the build back into the loop while the
\* tracefile exists and gives it the lock when it does not; and build returns
\* only after the rule ran.
C14_ForceNeverRestores ==
    [][\A p \in Procs :
          inv[p].force =>
             /\ (pc[p] = "try" /\ pc'[p] # "try"
                 => pc'[p] = "create" /\ UNCHANGED disk)
             /\ (pc[p] = "create" /\ pc'[p] # "create"
                 => IF wip[inv[p].target] # NoFile
                    THEN pc'[p] = "try" /\ UNCHANGED wip
                    ELSE pc'[p] = "run" /\ wip'[inv[p].target].owner = p)
             /\ (pc[p] \in {"try", "create"} \cup Holding /\ pc'[p] = "stamp"
                 => loc[p].rc \in {0, 102})]_vars

\* A forced build runs the rule, after a retry of the loop, although a valid
\* trace of its job is there.
C14_Witness ==
    \E p \in Procs :
       /\ inv[p].force
       /\ pc[p] = "run"
       /\ loc[p].waited \in {"released", "committed"}
       /\ ValidTrees(p, job_for(inv[p].target)) \ {Overflow} # {}

\* C15: while a top-level invocation started with force is running, no redux
\* process started by a rule of its tree restores a target: its build goes
\* from the loop to JobTmpFiles::create without touching the work tree, and
\* it does not restore the enclosing target and exit 102 either.
C15_ForceRecursive ==
    [][\A p, q \in Procs :
          ~Free(p) /\ inv[p].ptf = None /\ inv[p].force /\ inv[q].ptf # None
          => /\ (pc[q] = "try" /\ pc'[q] # "try"
                 => pc'[q] = "create" /\ UNCHANGED disk)
             /\ (pc[q] = "bail" /\ pc'[q] # "bail"
                 => loc'[q].res # "102" /\ UNCHANGED disk)]_vars

\* Rule a wins over rule b by the order of the specification: the deeper
\* directory; at equal depth the non-default rule; of two default rules at
\* equal depth the longer extension.
Beats(a, b) ==
    \/ depth(a.dir) > depth(b.dir)
    \/ depth(a.dir) = depth(b.dir) /\ ~a.default /\ b.default
    \/ depth(a.dir) = depth(b.dir) /\ a.default /\ b.default /\ Len(a.name) > Len(b.name)

\* default.do at the root of the work tree.
RootDefault == [dir |-> <<>>, default |-> TRUE, name |-> <<>>]

\* The rules of the scanned rule set whose glob matches the target.
Matching(r) == {r.ruleset[id] : id \in r.matches}

\* What C16 says of every result of job_for but its last sentence: None
\* exactly when no rule matches, else the rule that wins over every other
\* matching rule.
HighestPriority(r) ==
    /\ (r.out = <<>>) <=> (Matching(r) = {})
    /\ r.out # <<>> =>
          \E best \in Matching(r) :
             /\ r.out = JobSpec(to_path(best), r.target)
             /\ \A m \in Matching(r) \ {best} : Beats(best, m)

\* C16 as stated: job_for returns the highest-priority matching rule, None
\* exactly when none matches, and a root default.do is chosen for a nested
\* target if and only if no rule in a deeper directory matches the target.
C16_JobForDeeper ==
    ret # <<>> /\ ret[1].op = "job_for" =>
       LET r == ret[1]
       IN  /\ HighestPriority(r)
           /\ RootDefault \in Matching(r) /\ Len(r.target) > 1 =>
                 (r.out = JobSpec(to_path(RootDefault), r.target)
                    <=> ~\E m \in Matching(r) : depth(m.dir) > 0)

\* C16, amended: job_for returns the highest-priority matching rule, None
\* exactly when none matches, and a root default.do is chosen for a nested
\* target if and only if no other rule matches the target.
C16_JobFor ==
    ret # <<>> /\ ret[1].op = "job_for" =>
       LET r == ret[1]
       IN  /\ HighestPriority(r)
           /\ RootDefault \in Matching(r) /\ Len(r.target) > 1 =>
                 (r.out = JobSpec(to_path(RootDefault), r.target)
                    <=> Matching(r) = {RootDefault})

\* job_for chose among three matching rules for a nested target, the root
\* default.do one of them.
C16_Witness ==
    /\ ret # <<>>
    /\ ret[1].op = "job_for"
    /\ Cardinality(ret[1].matches) = 3
    /\ RootDefault \in Matching(ret[1])
    /\ Len(ret[1].target) > 1
    /\ ret[1].out # <<>>
    /\ ret[1].out[1] # to_path(RootDefault)

\* C17: a non-default rule X.do in directory D matches a target if and only
\* if the target is D/X.
C17_ExactMatch ==
    ret # <<>> /\ ret[1].op = "job_for" =>
       \A id \in 1..Len(ret[1].ruleset) :
          LET rule == ret[1].ruleset[id]
          IN  ~rule.default =>
                 (id \in ret[1].matches <=> ret[1].target = Append(rule.dir, rule.name))

\* Some target is matched by the globs of both rules.
Compete(a, b) ==
    \E t \in TargetPool :
       /\ Glob_is_match(Glob_new(to_glob(a), 1), 1, Display(t), 1)
       /\ Glob_is_match(Glob_new(to_glob(b), 1), 1, Display(t), 1)

\* C18 as stated: for two rules of one directory, priority(a, b) is the
\* inverse of priority(b, a), and it is Equal only if a and b are the same
\* rule.
C18_PriorityTotal ==
    ret # <<>> /\ ret[1].op = "priority" /\ ret[1].a.dir = ret[1].b.dir =>
       /\ ret[1].ab = reverse(ret[1].ba)
       /\ ret[1].ab = "Equal" => ret[1].a = ret[1].b

\* C18, amended: for two rules of one directory, priority(a, b) is the
\* inverse of priority(b, a); it is Equal only if both are default rules or
\* neither is and their names have the same length; and for two rules that
\* both match some target it is Equal only if they are the same rule.
C18_Priority ==
    ret # <<>> /\ ret[1].op = "priority" /\ ret[1].a.dir = ret[1].b.dir =>
       /\ ret[1].ab = reverse(ret[1].ba)
       /\ ret[1].ab = "Equal" =>
             /\ ret[1].a.default = ret[1].b.default
             /\ Len(ret[1].a.name) = Len(ret[1].b.name)
             /\ Compete(ret[1].a, ret[1].b) => ret[1].a = ret[1].b

\* priority compared two different rules of one directory that match a
\* common target, one way and the other.
C18_Witness ==
    /\ ret # <<>>
    /\ ret[1].op = "priority"
    /\ ret[1].a.dir = ret[1].b.dir
    /\ ret[1].a # ret[1].b
    /\ Compete(ret[1].a, ret[1].b)
    /\ ret[1].ab = "Greater"
    /\ ret[1].ba = "Less"

\* The jobs of a BuildTree: its own and those of the witnesses of its
\* intermediates, all the way down.
RECURSIVE TreeJobs(_)
TreeJobs(tree) ==
    {tree.job} \cup UNION {TreeJobs(tree.intermediates[i][2]) :
                             i \in 1..Len(tree.intermediates)}

\* The entries that load drops.
Superseded == load_all(traces) \ load(traces)

\* C19: an entry whose job's rule is not what job_for gives for its target is
\* not in the graph that load returns, and no job of a BuildTree that
\* try_restore gets from valid_trace_for is such a job: neither the job of
\* the tree nor the job of the witness of an intermediate at any level.
C19_SupersededUnused ==
    /\ \A e \in load_all(traces) :
          (e \in load(traces)) => e.job = job_for(e.job[2])
    /\ (ret # <<>> /\ ret[1].out \notin {NoTree, Overflow})
          => \A job \in TreeJobs(ret[1].out) : job = job_for(job[2])

\* try_restore got a BuildTree with the witness of an intermediate, while a
\* dropped entry that passes the checks of is_trace_valid on its own produces
\* that intermediate with the recorded hash.
C19_Witness ==
    /\ ret # <<>>
    /\ ret[1].out \notin {NoTree, Overflow}
    /\ \E i \in 1..Len(ret[1].out.intermediates) :
          \E e \in Superseded :
             /\ LocallyValid(e, Env(1))
             /\ ret[1].out.intermediates[i][1] \in SeqRange(e.outputs)

\* valid_trace_for returns a BuildTree for the job on the graph of the
\* tracefiles dir, whatever the iteration order of its HashSets.
ReturnsTree(dir, job) ==
    LET Out == valid_trace_for(load(dir), job, Env(1))
    IN  Out # {} /\ Overflow \notin Out

\* C20: if valid_trace_for returns a BuildTree for a job on the graph of
\* some of the tracefiles of the traces directory, then it returns a
\* BuildTree for the job on the graph of all of them, the files on disk, the
\* current BuildId and the clock being the same.
C20_Monotone ==
    (ret # <<>> /\ \E dir \in SUBSET traces : ReturnsTree(dir, ret[1].job))
       => ret[1].out \notin {NoTree, Overflow}

\* C21: valid_trace_for returns on every graph: a chain of intermediates
\* that leads back to an entry on the recursion stack is cut, and the call
\* ends with a BuildTree or with None, never with the stack exhausted.
C21_Terminates ==
    ret # <<>> => ret[1].out # Overflow

\* The workers of the invocation that are running, and those that failed.
Running == {i \in 1..Len(bld.threads) : bld.threads[i] = "running"}
Failed == {i \in 1..Len(bld.threads) : bld.threads[i] \in {"err", "panic", "overflow"}}

\* C22: in an invocation that uses the jobserver every running worker holds
\* a token of its own, so no more workers run at a time than the jobserver
\* has tokens.
C22_TokensBoundWorkers ==
    needs_jobserver(bld.targets, bld.jobs) => Cardinality(Running) <= bld.jobs

\* C23: when the invocation ends and one of its workers has failed, a worker
\* was started for every target, none is still running, and the exit code
\* is neither 0 nor 102.
C23_PeersComplete ==
    (bld.pc = "exit" /\ Failed # {})
       => /\ Len(bld.threads) = bld.targets
          /\ Running = {}
          /\ bld.code \notin {0, 102}

\* Process p takes the step of Artifacts::insert that copies a file to the
\* store file named after the hash of its stamp.
InsertCopies(p) ==
    /\ pc[p] \in {"c_insert", "insert"}
    /\ pc'[p] # pc[p]
    /\ loc[p].stamp \notin loc[p].listing
    /\ ~CopyFails(p, inv[p].target)

\* C24: an insert writes a store file only when the store has no file of
\* that name: a file of the store, once there, is never written again, also
\* not by a process that listed the store before a peer added the file.
C24_WrittenOnce ==
    [][\A p \in Procs : InsertCopies(p) => artifacts[loc[p].stamp] = None]_vars

\* C25: parsing the printed form of a JobSpec gives the JobSpec back, with
\* an empty env and with a non-empty env.
C25_JobSpecRoundTrip ==
    (ret # <<>> /\ ret[1].op = "JobSpec") => ret[1].out = Ok(ret[1].in)

\* C26: parsing the printed form of a TraceFileLine gives the line back, for
\* each of job, source, generated, produced, env_var, data, valid_for and
\* valid_until.
C26_LineRoundTrip ==
    (ret # <<>> /\ ret[1].op = "TraceFileLine") => ret[1].out = Ok(ret[1].in)

\* C27: in every tracefile of the traces directory the produced line is the
\* last line: no line of any kind follows it.
C27_ProducedLast ==
    \A f \in traces : f.lines[Len(f.lines)].tag = "produced"

\* C28: an invocation started for a target that is not a source and has no
\* matching rule ends with an error in that same step: no tracefile and no
\* temporary output is created, no rule is run, the work tree, the artifact
\* store and the traces directory stay as they are.
C28_NoRuleFails ==
    [][\A q \in Procs :
          (/\ starts' = starts + 1
           /\ SlotFree(q)
           /\ ~inv'[q].always
           /\ ~is_source(inv'[q].target)
           /\ job_for(inv'[q].target) = <<>>)
             => /\ pc'[q] = "exit"
                /\ loc'[q].res = "err"
                /\ loc'[q].rc = -1
                /\ UNCHANGED <<disk, tmp, wip, traces, artifacts>>]_vars

\* An invocation for b has failed for want of a rule while the other process
\* holds the tracefile of a.
C28_Witness ==
    \E p, q \in Procs :
       /\ inv[p].target = "b" /\ job_for("b") = <<>> /\ disk["b"] = None
       /\ pc[p] = "exit" /\ loc[p].res = "err"
       /\ pc[q] \in Holding

\* Where a process is inside redux::build: in the restore-or-lock loop or in
\* actually_run.
InBuild == {"try", "create"} \cup Holding

HeaderParses(l) == JobSpec_from_str(trim_start_matches(l, <<"job", " ">>)).res = "Ok"

BodyParses(l) == TraceFileLine_from_str(l) # Err

\* The lines after the first that parse, merged in their order.
RECURSIVE FoldParsed(_, _)
FoldParsed(trace, ls) ==
    IF ls = <<>> THEN trace
    ELSE FoldParsed(merge(trace, TraceFileLine_from_str(Head(ls)).val), Tail(ls))

\* The lines of ls that parse, in their order.
RECURSIVE ParsedOf(_)
ParsedOf(ls) ==
    IF ls = <<>> THEN <<>>
    ELSE (IF BodyParses(Head(ls)) THEN <<Head(ls)>> ELSE <<>>) \o ParsedOf(Tail(ls))

HasUnparseable(txt) ==
    LET ls == str_lines(txt)
    IN  /\ ls # <<>>
        /\ \/ ~HeaderParses(Head(ls))
           \/ \E i \in 2..Len(ls) : ~BodyParses(ls[i])

\* C30: reading a tracefile that has an unparseable line does not fail, and
\* gives the trace of the lines that parse, merged in their order.
C30_SkipsUnparseable ==
    (ret # <<>> /\ ret[1].op = "read" /\ HasUnparseable(ret[1].txt))
       => /\ ret[1].out.res = "Ok"
          /\ LET ls == str_lines(ret[1].txt)
                 t == ret[1].out.val
             IN  t = FoldParsed(EmptyTrace(t.job), ParsedOf(Tail(ls)))

Generated(path) ==
    /\ path \notin Sources
    /\ \/ disk[path] = None
       \/ \E f \in traces : \E i \in 1..Len(f.lines) :
             /\ f.lines[i].tag = "produced"
             /\ f.lines[i].path = path
             /\ f.lines[i].val = Hash(disk[path])

\* The step starts an invocation for a target in slot q.
Declared(q) ==
    /\ starts' = starts + 1
    /\ SlotFree(q)
    /\ ~inv'[q].always

\* C32: a declared target is classified as a source when it is in the index;
\* else as generated when it is missing or its stamp is an output of any
\* recorded trace, superseded ones included; else as a source.  It goes
\* through its rule only when it is classified as generated, and its line in
\* the parent's tracefile is `generated` in that case and `source` otherwise.
C32_Classification ==
    [][\A q \in Procs :
         /\ Declared(q) =>
               /\ loc'[q].isSrc = ~Generated(inv'[q].target)
               /\ pc'[q] = "stamp" <=> ~Generated(inv'[q].target)
               /\ pc'[q] # "stamp" =>
                     pc'[q] = (IF job_for(inv'[q].target) = <<>> THEN "exit" ELSE "try")
         /\ (~Free(q) /\ pc'[q] \notin {"idle", "exit"}) => loc'[q].isSrc = loc[q].isSrc
         /\ (loc[q].isSrc /\ ~Free(q)) => pc'[q] \notin {"try", "create", "run"}
         /\ (pc[q] = "append" /\ pc'[q] # "append" /\ wip' # wip) =>
               LET ls == wip'[inv[q].ptf].lines
               IN  /\ ls[Len(ls)].path = inv[q].target
                   /\ ls[Len(ls)].tag = (IF loc[q].isSrc THEN "source" ELSE "generated")]_vars

\* A declared target whose stamp is an output of a superseded trace only is
\* on its way through its rule.
C32_Witness ==
    \E p \in Procs :
       /\ pc[p] = "try"
       /\ inv[p].target = "b"
       /\ inv[p].ptf = "a"
       /\ disk["b"] # None
       /\ Stamp("b", Hash(disk["b"])) \in outputs(Superseded)
       /\ Stamp("b", Hash(disk["b"])) \notin outputs(load(traces))

\* The first two lines of a tracefile are the job line and the source line
\* of the job's rule script.
StartsWithRule(lines) ==
    /\ Len(lines) >= 2
    /\ lines[1].tag = "job"
    /\ lines[2].tag = "source"
    /\ lines[2].path = lines[1].val

\* The entries of the graph that record the rule script of their job with a
\* stamp that is not its stamp now.
StaleRule(G) ==
    {e \in G : \E i \in 1..Len(e.sources) :
        /\ e.sources[i][1] = e.job[1]
        /\ e.sources[i][2] # Hash(disk[e.job[1]])}

\* C33: a tracefile just created holds exactly the job line and a source line
\* with the current stamp of the rule script; every committed trace has the
\* rule script of its job among its sources; and a trace whose rule script
\* has other content now is not reusable: is_trace_valid gives no tree for it.
C33_RuleIsSource ==
    [][/\ \A p \in Procs :
            (pc[p] = "create" /\ pc'[p] = "run") =>
               LET ls == wip'[inv[p].target].lines
               IN  /\ Len(ls) = 2
                   /\ StartsWithRule(ls)
                   /\ ls[1].path = inv[p].target
                   /\ ls[2].val = Hash(disk[ls[2].path])
       /\ \A f \in traces' :
             /\ StartsWithRule(f.lines)
             /\ \E i \in 1..Len(TraceFile_read(f.lines).sources) :
                   TraceFile_read(f.lines).sources[i][1] = TraceFile_read(f.lines).job[1]
       /\ \A e \in StaleRule(load_all(traces))', p \in Procs :
             is_trace_valid(load(traces), e, Env(p), Depth(load(traces)))' = {}]_vars

\* The rule script a.do was edited after a build of a was committed, and an
\* invocation that was not forced runs the rule again.
C33_Witness ==
    \E p \in Procs :
       /\ pc[p] = "run"
       /\ inv[p].target = "a"
       /\ ~inv[p].force
       /\ StaleRule({e \in load(traces) : e.job = job_for("a")}) # {}
       /\ StaleRule(load(traces)) = {e \in load(traces) : e.job = job_for("a")}

\* A trace has a source whose content in the work tree is not the content of
\* its stamp; a missing file has no content.
OutOfDate(t) ==
    \E i \in 1..Len(t.sources) :
       disk[t.sources[i][1]] = None \/ Hash(disk[t.sources[i][1]]) # t.sources[i][2]

\* C34: drop_out_of_date removes exactly the traces with a source that is out
\* of date or missing, keeps the other traces as they are, and leaves no job
\* with an empty set of traces.
C34_DropsOutOfDate ==
    (ret # <<>> /\ ret[1].op = "drop_out_of_date") =>
       LET M == ret[1].in
       IN  /\ ret[1].out.res = "Ok"
           /\ \A j \in DOMAIN ret[1].out.val : ret[1].out.val[j] # {}
           /\ \A j \in DOMAIN M :
                 LET kept == {t \in M[j] : ~OutOfDate(t)}
                 IN  IF kept = {} THEN j \notin DOMAIN ret[1].out.val
                     ELSE j \in DOMAIN ret[1].out.val /\ ret[1].out.val[j] = kept
           /\ DOMAIN ret[1].out.val \subseteq DOMAIN M

\* The job that process p hands to try_restore: the job of its target in
\* build (lib.rs 110-118), the job of REDUX_TRACEFILE in main (main.rs 266).
JobsTried(p) ==
    IF pc[p] = "try" /\ ~inv[p].force THEN {job_for(inv[p].target)}
    ELSE IF pc[p] = "bail" /\ wip[inv[p].ptf] # NoFile
         THEN {TraceFile_read(wip[inv[p].ptf].lines).job}
    ELSE {}

====
